---- MODULE Spec2Model ----
(***************************************************************************)
(* Mood2Music: the recommendation service (src/spotify/service.py), the    *)
(* data model it uses (src/spotify/models.py) and the playlist exporter    *)
(* of the Streamlit front end (src/app.py), as state machines driven by    *)
(* the outcomes of the gateway (SpotifyClient) calls they make.            *)
(*                                                                         *)
(* One behaviour is one call of one operation.  `op` names the operation,  *)
(* `pc` the position inside it; every action is one gateway call together  *)
(* with all the code the operation runs up to its next gateway call.       *)
(* Track IDs are the numbers 1..MaxId; a Track is identified by its ID.    *)
(* Feature values are kept in tenths (0..10), tempo in BPM, scores in      *)
(* hundredths, so that the arithmetic of the scorer is exact.              *)
(***************************************************************************)
EXTENDS Integers, Sequences, FiniteSets, TLC

VARIABLES
    op,                 \* the operation this behaviour runs
    pc,                 \* position inside the operation
    mood,               \* get_mood_recommendations: mood_preset (by name)
    limit,              \* get_mood_recommendations: limit
    use_user_library,   \* get_mood_recommendations: use_user_library
    user_track_ids,     \* get_mood_recommendations: user_track_ids ([given, ids])
    in_ids,             \* the ID list handed to a helper or to the exporter
    text,               \* a text argument, as a list of characters
    track_features,     \* the scorers' track features
    target_features,    \* the scorers' target vector
    catalog,            \* what the provider holds as audio features of each track
    track_ids,          \* the list the running batching loop iterates over
    i,                  \* the batching loop's index (0-based, as in range())
    j,                  \* position in the per-ID fallback loop (0-based)
    features,           \* _get_audio_features_safe: features
    tracks,             \* _get_tracks_in_batches: tracks
    q,                  \* _recommend_from_search: index of the current query
    playlist,           \* create_mood_playlist: the Playlist object
    result,             \* what the operation returned or raised
    source,             \* the strategy that produced the result
    calls,              \* the gateway calls issued so far, in order
    last,               \* the latest gateway call: its request and its outcome
    raised,             \* the gateway functions that have raised so far
    honest,             \* no response so far named an ID that was not asked for
    within,             \* no get_tracks or search response so far was longer than asked
    search_hits,        \* the largest number of tracks a search has returned so far
    all_failed,         \* every gateway call so far has raised
    remote,             \* the provider's side of the playlist
    sdk,                \* SpotifyClient: the provider requests issued so far
    provider,           \* SpotifyClient: the outcome of the latest provider request
    scored_list         \* filter_tracks_by_mood: scored_tracks

inputVars == <<op, mood, limit, use_user_library, user_track_ids, in_ids,
               text, track_features, target_features, catalog>>
ctlVars   == <<pc, track_ids, i, j, features, tracks, q, playlist, result, source>>
gwVars    == <<calls, last, raised, honest, within, search_hits, all_failed, remote>>
extVars   == <<sdk, provider, scored_list>>
vars      == <<op, pc, mood, limit, use_user_library, user_track_ids, in_ids,
               text, track_features, target_features, catalog,
               track_ids, i, j, features, tracks, q, playlist, result, source,
               calls, last, raised, honest, within, search_hits, all_failed, remote,
               sdk, provider, scored_list>>

(***************************************************************************)
(* Bounds of the model.                                                    *)
(***************************************************************************)
MaxId == 3            \* the provider knows the tracks 1..MaxId
MaxSmallLimit == 2    \* limits 0..MaxSmallLimit are tried besides 50 and 51
MaxHits == 2          \* a search answers with at most MaxHits tracks
MaxTracks == 201      \* the exporter is given up to MaxTracks tracks
MaxPageItems == 2     \* a page of saved tracks holds at most MaxPageItems items
MaxWords == 2         \* a text is made of at most MaxWords words of the vocabulary
MaxPages == 3         \* the provider has at most MaxPages pages of saved tracks

\* The batch sizes of the two best-effort loops and the library sample cap
\* are 100, 50 and 100 in the source.  The loops retry per ID with an
\* independent outcome for every call, so the model runs them at a reduced
\* scale; FEATURE_BATCH = SAMPLE_MAX as in the source.
FEATURE_BATCH == 2    \* service.py:188-189, range(0, n, 100)
SAMPLE_MAX == 2       \* service.py:144, min(100, len(track_ids))
TRACK_BATCH == 2      \* service.py:255-256, range(0, n, 50)
APP_FEATURE_BATCH == 2 \* app.py:569-570, range(0, n, 100)
APP_SAMPLE_MAX == 2   \* app.py:621, min(100, len(liked_track_ids))
APP_TRACK_BATCH == 2  \* app.py:656-657, range(0, n, 50)

(***************************************************************************)
(* Program constants.                                                      *)
(***************************************************************************)
LIMIT_MIN == 1
LIMIT_MAX == 50
SEARCH_FACTOR == 3
SEARCH_CAP == 50
PLAYLIST_BATCH == 100
CLIENT_FEATURES_MAX == 100
CLIENT_TRACKS_MAX == 50
CLIENT_SEARCH_MAX == 50
CLIENT_ADD_MAX == 100
LIKED_PAGE == 50
APP_SEARCH_LIMIT == 50
APP_LAST_FACTOR == 2
APP_ATTEMPTS == 5

Ids == 1..MaxId

Min(a, b) == IF a <= b THEN a ELSE b
Abs_Signed(x) == x
Abs(x) == IF x >= 0 THEN x ELSE -x
Range(s) == {s[k] : k \in DOMAIN s}

\* Python's s[a:b] for 0 <= a <= b
Slice(s, a, b) == SubSeq(s, a + 1, Min(b, Len(s)))

\* Python's s[:n] for n >= 0
Prefix(s, n) == SubSeq(s, 1, Min(n, Len(s)))

RECURSIVE SubSeqs(_)
\* the order-preserving selections of s
SubSeqs(s) ==
    IF s = <<>> THEN {<<>>}
    ELSE LET rest == SubSeqs(Tail(s))
         IN  rest \cup {<<Head(s)>> \o r : r \in rest}

\* the sequences of k distinct members of S
InjSeqs(S, k) ==
    {s \in [1..k -> S] : \A a, b \in 1..k : a # b => s[a] # s[b]}

(***************************************************************************)
(* models.py: mood presets, audio features, the scorer.                    *)
(***************************************************************************)
DEFAULT_MOOD_PRESETS ==
    [Happy    |-> [name |-> "Happy",    valence |-> 8, energy |-> 7, danceability |-> 7, tempo |-> 120],
     Chill    |-> [name |-> "Chill",    valence |-> 5, energy |-> 3, danceability |-> 4, tempo |-> 90],
     Focus    |-> [name |-> "Focus",    valence |-> 4, energy |-> 4, danceability |-> 3, tempo |-> 100],
     Sad      |-> [name |-> "Sad",      valence |-> 2, energy |-> 3, danceability |-> 3, tempo |-> 80],
     Hype     |-> [name |-> "Hype",     valence |-> 7, energy |-> 9, danceability |-> 8, tempo |-> 140],
     Romantic |-> [name |-> "Romantic", valence |-> 6, energy |-> 4, danceability |-> 5, tempo |-> 95]]

\* a caller-built preset whose name is in no keyword table
CustomPreset ==
    [name |-> "Custom", valence |-> 5, energy |-> 5, danceability |-> 5, tempo |-> 110]

MoodNames == {"Happy", "Chill", "Focus", "Sad", "Hype", "Romantic", "Custom"}

Preset(m) == IF m = "Custom" THEN CustomPreset ELSE DEFAULT_MOOD_PRESETS[m]

\* MoodPreset.to_dict
ToDict(p) ==
    [valence |-> p.valence, energy |-> p.energy,
     danceability |-> p.danceability, tempo |-> p.tempo]

\* what the provider's audio analysis says about each track
CatalogFeatures ==
    [t \in Ids |->
        [track_id     |-> t,
         valence      |-> (3 * t) % 11,
         energy       |-> ((7 * t) + 2) % 11,
         danceability |-> ((5 * t) + 1) % 11,
         tempo        |-> 60 + ((37 * t) % 140)]]

calculate_mood_score_SignedValence(f, target) ==
      (f.valence - target.valence) * 20
    + Abs(f.energy - target.energy) * 15
    + Abs(f.danceability - target.danceability) * 15
    + Abs(f.tempo - target.tempo)

\* AudioFeatures.calculate_mood_score, in hundredths
calculate_mood_score(f, target) ==
      Abs(f.valence - target.valence) * 20
    + Abs(f.energy - target.energy) * 15
    + Abs(f.danceability - target.danceability) * 15
    + Abs(f.tempo - target.tempo)

RECURSIVE InsertSorted(_, _)
\* list.sort(key=...) is stable: x goes after every element whose key is <= its own
InsertSorted(x, s) ==
    IF s = <<>> THEN <<x>>
    ELSE IF Head(s)[2] <= x[2] THEN <<Head(s)>> \o InsertSorted(x, Tail(s))
    ELSE <<x>> \o s

RECURSIVE SortByScore(_)
SortByScore(s) ==
    IF s = <<>> THEN <<>>
    ELSE InsertSorted(s[Len(s)], SortByScore(SubSeq(s, 1, Len(s) - 1)))

\* RecommendationService._score_tracks_by_mood
ScoreTracksByMood(audio_features, target) ==
    SortByScore([k \in DOMAIN audio_features |->
        <<audio_features[k].track_id,
          calculate_mood_score(audio_features[k], target)>>])

(***************************************************************************)
(* The gateway (SpotifyClient) as the service sees it: every call either   *)
(* returns a list or raises.                                               *)
(***************************************************************************)
NoQuery == [kw |-> "", year |-> ""]

GatewayErrors == {"APIError", "AuthenticationError"}

Ok(resp)   == [kind |-> "ok", resp |-> resp, exc |-> ""]
Raise(exc) == [kind |-> "raise", resp |-> <<>>, exc |-> exc]

\* the track a gateway may name without having been asked for it
ExtraId == MaxId

\* client.get_audio_features keeps the non-null entries of the provider's
\* answer, which is aligned with the request; a stubbed gateway may also
\* answer with one entry more than it was asked for
FeatureResponses(req) ==
    {[k \in DOMAIN r |-> CatalogFeatures[r[k]]] :
        r \in SubSeqs(req) \cup {Append(req, ExtraId)}}

\* client.get_tracks keeps the parsable entries of the provider's answer; a
\* stubbed gateway may answer with a track that was not asked for, or with
\* one entry more than it was asked for
TrackResponses(req) ==
    SubSeqs(req) \cup {<<ExtraId>>, Append(req, ExtraId)}

\* client.search_tracks: at most n tracks of the catalog, listed in the
\* provider's order (ascending or descending IDs here)
SearchResponses(n) ==
    LET asc  == [k \in 1..MaxId |-> k]
        desc == [k \in 1..MaxId |-> MaxId + 1 - k]
    IN  {Prefix(asc, k) : k \in 0..Min(n, MaxHits)}
            \cup {Prefix(desc, k) : k \in 0..Min(n, MaxHits)}

Outcomes(responses) ==
    {Ok(r) : r \in responses} \cup {Raise(e) : e \in GatewayErrors}

\* what the log keeps of a call: the function, the number of IDs asked for
\* (the result limit for a search) and the query
CallRecord(fn, ids, query, n) ==
    [fn |-> fn, n |-> IF fn = "search_tracks" THEN n ELSE Len(ids), query |-> query]

RespIds(fn, resp) ==
    IF fn = "get_audio_features"
    THEN {resp[k].track_id : k \in DOMAIN resp}
    ELSE Range(resp)

\* the bookkeeping of one gateway call that reads IDs
Gateway(fn, ids, query, n, out) ==
    /\ calls' = Append(calls, CallRecord(fn, ids, query, n))
    /\ last' = [fn |-> fn, ids |-> ids, kind |-> out.kind, resp |-> out.resp,
                exc |-> out.exc]
    /\ raised' = IF out.kind = "raise" THEN raised \cup {fn} ELSE raised
    /\ honest' = (honest /\ (fn \in {"get_audio_features", "get_tracks"}
                                => RespIds(fn, out.resp) \subseteq Range(ids)))
    /\ within' = (within /\ (fn = "get_tracks" => Len(out.resp) <= Len(ids))
                         /\ (fn = "search_tracks" => Len(out.resp) <= n))
    /\ search_hits' = IF fn = "search_tracks" /\ Len(out.resp) > search_hits
                      THEN Len(out.resp) ELSE search_hits
    /\ all_failed' = (all_failed /\ out.kind = "raise")

(***************************************************************************)
(* Results of an operation.                                                *)
(***************************************************************************)
Pending == [kind |-> "pending", value |-> <<>>, exc |-> ""]
Return(v) == [kind |-> "return", value |-> v, exc |-> ""]
Raised(e) == [kind |-> "raise", value |-> <<>>, exc |-> e]

NoPlaylist == [playlist_id |-> 0, track_ids |-> <<>>]

\* leaves the operation: its locals go out of scope
Finish(res, src) ==
    /\ pc' = "done"
    /\ result' = res
    /\ source' = src
    /\ track_ids' = <<>> /\ i' = 0 /\ j' = 0
    /\ features' = <<>> /\ tracks' = <<>> /\ q' = 0
    /\ UNCHANGED playlist

\* goes on inside the operation
Goto(p, t, ii, jj, f, tr, qq) ==
    /\ pc' = p
    /\ track_ids' = t /\ i' = ii /\ j' = jj
    /\ features' = f /\ tracks' = tr /\ q' = qq
    /\ UNCHANGED <<playlist, result, source>>

(***************************************************************************)
(* RecommendationService._generate_search_queries                          *)
(***************************************************************************)
mood_keywords(name) ==
    CASE name = "Happy"    -> <<"happy", "upbeat", "cheerful", "positive", "joyful">>
      [] name = "Chill"    -> <<"chill", "relaxed", "mellow", "ambient", "calm">>
      [] name = "Focus"    -> <<"focus", "study", "concentration", "ambient", "instrumental">>
      [] name = "Sad"      -> <<"sad", "melancholy", "emotional", "ballad", "heartbreak">>
      [] name = "Hype"     -> <<"hype", "energetic", "pump", "party", "workout">>
      [] name = "Romantic" -> <<"romantic", "love", "beautiful", "emotional", "sweet">>
      [] OTHER             -> <<"pop">>

\* str.lower() of the names the model uses
Lower(name) ==
    CASE name = "Happy"    -> "happy"
      [] name = "Chill"    -> "chill"
      [] name = "Focus"    -> "focus"
      [] name = "Sad"      -> "sad"
      [] name = "Hype"     -> "hype"
      [] name = "Romantic" -> "romantic"
      [] name = "Custom"   -> "custom"

year_filter_Inclusive(preset) ==
    IF preset.energy >= 7 THEN " year:2020-2025"
    ELSE IF preset.energy >= 4 THEN " year:2015-2025"
    ELSE " year:2010-2025"

\* service.py:334-339; energy is in tenths
year_filter(preset) ==
    IF preset.energy > 7 THEN " year:2020-2025"
    ELSE IF preset.energy > 4 THEN " year:2015-2025"
    ELSE " year:2010-2025"

\* a query is the pair (text, year filter appended to it)
GenerateSearchQueries(preset) ==
    LET keywords == mood_keywords(preset.name)
    IN    <<[kw |-> keywords[1], year |-> year_filter(preset)]>>
       \o <<[kw |-> keywords[1], year |-> ""]>>
       \o (IF Len(keywords) > 1 THEN <<[kw |-> keywords[2], year |-> ""]>> ELSE <<>>)
       \o <<[kw |-> Lower(preset.name), year |-> ""]>>
       \o <<[kw |-> "top hits 2024", year |-> ""]>>

(***************************************************************************)
(* RecommendationService.get_mood_recommendations and its helpers          *)
(***************************************************************************)
ValidLimit_UpperOffByOne(l) == ~(l < LIMIT_MIN \/ l > LIMIT_MAX + 1)

\* service.py:88
ValidLimit(l) == ~(l < LIMIT_MIN \/ l > LIMIT_MAX)

LibraryEligible_AnySize ==
    /\ use_user_library
    /\ user_track_ids.given
    /\ user_track_ids.ids # <<>>

\* service.py:94
LibraryEligible ==
    /\ use_user_library
    /\ user_track_ids.given
    /\ user_track_ids.ids # <<>>
    /\ Len(user_track_ids.ids) >= limit

\* random.sample(population, k): k entries at distinct positions, in any order
RandomSample(population, k) ==
    {[m \in 1..k |-> population[pos[m]]] : pos \in InjSeqs(DOMAIN population, k)}

BestTrackIds_Unsliced(scored, n) == [k \in 1..Len(scored) |-> scored[k][1]]

\* service.py:164
BestTrackIds(scored, n) == [k \in 1..Min(n, Len(scored)) |-> scored[k][1]]

SearchLimit_Uncapped(l) == l * SEARCH_FACTOR

\* service.py:293
SearchLimit(l) == Min(l * SEARCH_FACTOR, SEARCH_CAP)

EnoughTracks_AnyTrack(found, l) == found # <<>>

\* service.py:296
EnoughTracks(found, l) == Len(found) >= l

SearchResult_Unsliced(found, l) == found

\* service.py:298
SearchResult(found, l) == Prefix(found, l)

Queries == GenerateSearchQueries(Preset(mood))

\* service.py:108-112: the search strategy starts
StartSearch == Goto("search", <<>>, 0, 0, <<>>, <<>>, 1)

\* service.py:110-112
SearchReturn(t) == Finish(Return(t), "search")

\* service.py:113-115: an exception that leaves _recommend_from_search
SearchEscapes == Finish(Raised("APIError"), "none")

NextQuery_Restarts ==
    IF q < Len(Queries)
    THEN Goto("search", <<>>, 0, 0, <<>>, <<>>, q + 1)
    ELSE Goto("search", <<>>, 0, 0, <<>>, <<>>, 1)

\* service.py:289, 302-306: the loop goes to the next query, or runs out
NextQuery ==
    IF q < Len(Queries)
    THEN Goto("search", <<>>, 0, 0, <<>>, <<>>, q + 1)
    ELSE SearchReturn(<<>>)

SearchFailed_Propagates == SearchEscapes

\* service.py:300-302
SearchFailed == NextQuery

\* service.py:101-106: back in get_mood_recommendations with the library's tracks
LibraryReturn(t) ==
    IF t # <<>> THEN Finish(Return(t), "library") ELSE StartSearch

\* service.py:263 and 167-170
TracksReturn(t) ==
    IF op = "tracks" THEN Finish(Return(t), "none") ELSE LibraryReturn(t)

\* service.py:253-256: _get_tracks_in_batches starts
GetTracksInBatches(ids) ==
    IF ids = <<>> THEN TracksReturn(<<>>)
    ELSE Goto("tracks_batch", ids, 0, 0, <<>>, <<>>, 0)

\* service.py:255: the next batch of tracks, or the end of the loop
NextTrackBatch(t) ==
    IF i + TRACK_BATCH < Len(track_ids)
    THEN Goto("tracks_batch", track_ids, i + TRACK_BATCH, 0, <<>>, t, 0)
    ELSE TracksReturn(t)

TrackBatchFailed_Stops == TracksReturn(tracks)

\* service.py:260-261
TrackBatchFailed == NextTrackBatch(tracks)

\* service.py:150-167: _recommend_from_library once it has the features
LibraryWithFeatures(f) ==
    IF f = <<>> THEN LibraryReturn(<<>>)
    ELSE LET scored_tracks == ScoreTracksByMood(f, ToDict(Preset(mood)))
         IN  IF scored_tracks = <<>> THEN LibraryReturn(<<>>)
             ELSE GetTracksInBatches(BestTrackIds(scored_tracks, limit))

\* service.py:204 and 148
FeaturesReturn(f) ==
    IF op = "features" THEN Finish(Return(f), "none") ELSE LibraryWithFeatures(f)

\* service.py:188: the next batch of features, or the end of the loop
NextFeatureBatch(f) ==
    IF i + FEATURE_BATCH < Len(track_ids)
    THEN Goto("features_batch", track_ids, i + FEATURE_BATCH, 0, f, <<>>, 0)
    ELSE FeaturesReturn(f)

\* service.py:197: the next ID of the fallback loop, or the end of the batch
NextSingle(f) ==
    IF j + 1 < Len(Slice(track_ids, i, i + FEATURE_BATCH))
    THEN Goto("features_single", track_ids, i, j + 1, f, <<>>, 0)
    ELSE NextFeatureBatch(f)

FeatureBatchFailed_NoRetry == LibraryReturn(<<>>)

\* service.py:194-197: the batch call raised
FeatureBatchFailed == Goto("features_single", track_ids, i, 0, features, <<>>, 0)

FeatureSingleFailed_Retries == Goto("features_single", track_ids, i, j, features, <<>>, 0)

\* service.py:201-202: the call for one ID raised
FeatureSingleFailed == NextSingle(features)

\* service.py:185-188: _get_audio_features_safe starts
GetAudioFeaturesSafe(ids) ==
    IF ids = <<>> THEN FeaturesReturn(<<>>)
    ELSE Goto("features_batch", ids, 0, 0, <<>>, <<>>, 0)

\* service.py:88-110 up to the first gateway call
Call ==
    /\ op = "recommend" /\ pc = "start"
    /\ IF ~ValidLimit(limit) THEN Finish(Raised("ValidationError"), "none")
       ELSE IF LibraryEligible
       THEN \E sampled_ids \in RandomSample(user_track_ids.ids,
                                  Min(SAMPLE_MAX, Len(user_track_ids.ids))) :
                GetAudioFeaturesSafe(sampled_ids)
       ELSE StartSearch
    /\ UNCHANGED <<inputVars, gwVars, extVars>>

\* a direct call of _get_audio_features_safe or of _get_tracks_in_batches
CallHelper ==
    /\ op \in {"features", "tracks"} /\ pc = "start"
    /\ IF op = "features" THEN GetAudioFeaturesSafe(in_ids)
       ELSE GetTracksInBatches(in_ids)
    /\ UNCHANGED <<inputVars, gwVars, extVars>>

\* service.py:189-195
FeaturesBatch ==
    /\ pc = "features_batch"
    /\ LET batch == Slice(track_ids, i, i + FEATURE_BATCH)
       IN  \E out \in Outcomes(FeatureResponses(batch)) :
             /\ Gateway("get_audio_features", batch, NoQuery, 0, out)
             /\ IF out.kind = "raise" THEN FeatureBatchFailed
                ELSE NextFeatureBatch(features \o out.resp)
    /\ UNCHANGED <<inputVars, remote, extVars>>

\* service.py:197-202
FeaturesSingle ==
    /\ pc = "features_single"
    /\ LET batch == Slice(track_ids, i, i + FEATURE_BATCH)
           track_id == batch[j + 1]
       IN  \E out \in Outcomes(FeatureResponses(<<track_id>>)) :
             /\ Gateway("get_audio_features", <<track_id>>, NoQuery, 0, out)
             /\ IF out.kind = "raise" THEN FeatureSingleFailed
                ELSE NextSingle(features \o out.resp)
    /\ UNCHANGED <<inputVars, remote, extVars>>

\* service.py:256-261
TracksBatch ==
    /\ pc = "tracks_batch"
    /\ LET batch == Slice(track_ids, i, i + TRACK_BATCH)
       IN  \E out \in Outcomes(TrackResponses(batch)) :
             /\ Gateway("get_tracks", batch, NoQuery, 0, out)
             /\ IF out.kind = "raise" THEN TrackBatchFailed
                ELSE NextTrackBatch(tracks \o out.resp)
    /\ UNCHANGED <<inputVars, remote, extVars>>

\* service.py:289-306
Search ==
    /\ pc = "search"
    /\ LET query == Queries[q]
       IN  \E out \in Outcomes(SearchResponses(SearchLimit(limit))) :
             /\ Gateway("search_tracks", <<>>, query, SearchLimit(limit), out)
             /\ IF out.kind = "raise" THEN SearchFailed
                ELSE IF EnoughTracks(out.resp, limit)
                THEN SearchReturn(SearchResult(out.resp, limit))
                ELSE NextQuery
    /\ UNCHANGED <<inputVars, remote, extVars>>

(***************************************************************************)
(* One call of get_mood_recommendations.                                   *)
(***************************************************************************)
LimitInputs == (0..MaxSmallLimit) \cup {LIMIT_MAX, LIMIT_MAX + 1}

\* user_track_ids: None, or the list 1..n
PoolInputs ==
    {[given |-> FALSE, ids |-> <<>>]}
        \cup {[given |-> TRUE, ids |-> [k \in 1..n |-> k]] : n \in 0..MaxId}

\* no provider request has been made yet
NoOutcome == [kind |-> "none", status |-> 0, shape |-> "", items |-> 0, next |-> FALSE]

\* a track without audio features (None), and a features dict
NoFeatures == [none |-> TRUE, dict |-> <<>>]
Dict(d) == [none |-> FALSE, dict |-> d]

\* the operations of the service take no text and no feature dicts
NoAppInputs ==
    /\ text = <<>>
    /\ track_features = NoFeatures
    /\ target_features = ToDict(Preset("Happy"))
    /\ catalog = <<>>

InitCommon ==
    /\ pc = "start"
    /\ track_ids = <<>> /\ i = 0 /\ j = 0
    /\ features = <<>> /\ tracks = <<>> /\ q = 0
    /\ playlist = NoPlaylist
    /\ result = Pending
    /\ source = "none"
    /\ calls = <<>>
    /\ last = [fn |-> "", ids |-> <<>>, kind |-> "none", resp |-> <<>>, exc |-> ""]
    /\ raised = {}
    /\ honest = TRUE
    /\ within = TRUE
    /\ search_hits = 0
    /\ all_failed = TRUE
    /\ remote = [created |-> FALSE, items |-> <<>>]
    /\ sdk = <<>>
    /\ provider = NoOutcome
    /\ scored_list = <<>>

InitRecommend ==
    /\ op = "recommend"
    /\ mood \in MoodNames
    /\ limit \in LimitInputs
    /\ use_user_library \in BOOLEAN
    /\ user_track_ids \in PoolInputs
    /\ in_ids = <<>>
    /\ NoAppInputs
    /\ InitCommon

NextRecommend == Call \/ FeaturesBatch \/ FeaturesSingle \/ TracksBatch \/ Search

SpecRecommend == InitRecommend /\ [][NextRecommend]_vars

(***************************************************************************)
(* Direct calls of the two batching helpers.                               *)
(***************************************************************************)
\* the ID lists handed to a helper: every list of up to MaxId known IDs
HelperInputs == UNION {[1..n -> Ids] : n \in 0..MaxId}

InitHelpers ==
    /\ op \in {"features", "tracks"}
    /\ mood = "Happy"
    /\ limit = LIMIT_MIN
    /\ use_user_library = FALSE
    /\ user_track_ids = [given |-> FALSE, ids |-> <<>>]
    /\ in_ids \in HelperInputs
    /\ NoAppInputs
    /\ InitCommon

NextHelpers == CallHelper \/ FeaturesBatch \/ FeaturesSingle \/ TracksBatch

SpecHelpers == InitHelpers /\ [][NextHelpers]_vars

(***************************************************************************)
(* The playlist exporters: RecommendationService.create_mood_playlist and  *)
(* app.create_playlist_from_tracks.                                        *)
(***************************************************************************)
\* create_playlist_from_tracks returning None
ReturnedNone == [kind |-> "return_none", value |-> <<>>, exc |-> ""]

\* client.py:462-469: the Playlist a successful create_playlist returns
NewPlaylist == [playlist_id |-> 1, track_ids |-> <<>>]

\* a step of an exporter: all its locals
Export(p, t, ii, pl, res) ==
    /\ pc' = p
    /\ track_ids' = t /\ i' = ii /\ playlist' = pl
    /\ result' = res
    /\ UNCHANGED <<j, features, tracks, q, source>>

EmptyTracks_Never(ts) == FALSE

\* service.py:382
EmptyTracks(ts) == ts = <<>>

PlaylistBatch_OneShort(ids, start) == Slice(ids, start, start + PLAYLIST_BATCH - 1)

\* service.py:401
PlaylistBatch(ids, start) == Slice(ids, start, start + PLAYLIST_BATCH)

\* service.py:382-399: validation, create_playlist, the list of IDs
CreatePlaylist ==
    /\ op = "playlist" /\ pc = "start"
    /\ IF EmptyTracks(in_ids)
       THEN /\ Export("done", <<>>, 0, playlist, Raised("ValidationError"))
            /\ UNCHANGED gwVars
       ELSE \E out \in Outcomes({<<>>}) :
              /\ Gateway("create_playlist", <<>>, NoQuery, 0, out)
              /\ IF out.kind = "raise"
                 THEN /\ Export("done", <<>>, 0, playlist, Raised(out.exc))
                      /\ UNCHANGED remote
                 ELSE /\ remote' = [remote EXCEPT !.created = TRUE]
                      /\ IF 0 < Len(in_ids)
                         THEN Export("add_batch", in_ids, 0, NewPlaylist, Pending)
                         ELSE Export("done", <<>>, 0, NewPlaylist, Return(NewPlaylist))
    /\ UNCHANGED <<inputVars, extVars>>

AppendFailed_SkipsBatch(exc) ==
    /\ IF i + PLAYLIST_BATCH < Len(track_ids)
       THEN Export("add_batch", track_ids, i + PLAYLIST_BATCH, playlist, Pending)
       ELSE Export("done", <<>>, 0, playlist, Return(playlist))
    /\ UNCHANGED remote

\* service.py:402: add_tracks_to_playlist raised and nothing catches it
AppendFailed(exc) ==
    /\ Export("done", <<>>, 0, playlist, Raised(exc))
    /\ UNCHANGED remote

\* service.py:400-406: one add_tracks_to_playlist call of the loop
AddTracks ==
    /\ op = "playlist" /\ pc = "add_batch"
    /\ LET batch == PlaylistBatch(track_ids, i)
       IN  \E out \in Outcomes({<<>>}) :
             /\ Gateway("add_tracks_to_playlist", batch, NoQuery, 0, out)
             /\ IF out.kind = "raise"
                THEN AppendFailed(out.exc)
                ELSE /\ remote' = [remote EXCEPT !.items = @ \o batch]
                     /\ LET extended == [playlist EXCEPT !.track_ids = @ \o batch]
                        IN  IF i + PLAYLIST_BATCH < Len(track_ids)
                            THEN Export("add_batch", track_ids, i + PLAYLIST_BATCH,
                                        extended, Pending)
                            ELSE Export("done", <<>>, 0, extended, Return(extended))
    /\ UNCHANGED <<inputVars, extVars>>

\* app.py:823: the URIs of the tracks that have one (0 is a track without "uri")
TrackUris(ts) == SelectSeq(ts, LAMBDA t : t # 0)

\* app.py:810-821 and 830-832: user_playlist_create inside try/except
AppCreatePlaylist ==
    /\ op = "app_playlist" /\ pc = "start"
    /\ \E out \in Outcomes({<<>>}) :
         /\ Gateway("create_playlist", <<>>, NoQuery, 0, out)
         /\ IF out.kind = "raise"
            THEN /\ Export("done", <<>>, 0, playlist, ReturnedNone)
                 /\ UNCHANGED remote
            ELSE /\ remote' = [remote EXCEPT !.created = TRUE]
                 /\ IF TrackUris(in_ids) # <<>>
                    THEN Export("app_add", TrackUris(in_ids), 0, NewPlaylist, Pending)
                    ELSE Export("done", <<>>, 0, NewPlaylist, Return(NewPlaylist))
    /\ UNCHANGED <<inputVars, extVars>>

\* app.py:826-832: playlist_add_items with all URIs at once, inside try/except
AppAddItems ==
    /\ op = "app_playlist" /\ pc = "app_add"
    /\ \E out \in Outcomes({<<>>}) :
         /\ Gateway("add_tracks_to_playlist", track_ids, NoQuery, 0, out)
         /\ IF out.kind = "raise"
            THEN /\ Export("done", <<>>, 0, playlist, ReturnedNone)
                 /\ UNCHANGED remote
            ELSE /\ remote' = [remote EXCEPT !.items = @ \o track_ids]
                 /\ Export("done", <<>>, 0, playlist, Return(playlist))
    /\ UNCHANGED <<inputVars, extVars>>

\* models.py:213-216
add_track(pl, track_id) ==
    IF track_id \notin Range(pl.track_ids)
    THEN [pl EXCEPT !.track_ids = Append(@, track_id)]
    ELSE pl

\* models.py:218-221
track_count(pl) == Len(pl.track_ids)

\* the caller of create_mood_playlist adds a track to the Playlist it got back
AddTrack ==
    /\ op = "playlist" /\ pc = "done" /\ result.kind = "return"
    /\ \E track_id \in {1, MaxTracks + 1} :
         playlist' = add_track(playlist, track_id)
    /\ UNCHANGED <<pc, track_ids, i, j, features, tracks, q, result, source>>
    /\ UNCHANGED <<inputVars, gwVars, extVars>>

\* the tracks handed to create_mood_playlist: n distinct tracks, or one twice
PlaylistInputs ==
    {[k \in 1..n |-> k] : n \in 0..MaxTracks} \cup {<<1, 1>>}

\* the track dicts handed to create_playlist_from_tracks
AppPlaylistInputs ==
    {[k \in 1..n |-> k] : n \in 0..MaxTracks} \cup {<<0>>, <<1, 0, 2>>}

InitPlaylist ==
    /\ \/ op = "playlist" /\ in_ids \in PlaylistInputs
       \/ op = "app_playlist" /\ in_ids \in AppPlaylistInputs
    /\ mood = "Happy"
    /\ limit = LIMIT_MIN
    /\ use_user_library = FALSE
    /\ user_track_ids = [given |-> FALSE, ids |-> <<>>]
    /\ NoAppInputs
    /\ InitCommon

NextPlaylist ==
    CreatePlaylist \/ AddTracks \/ AppCreatePlaylist \/ AppAddItems \/ AddTrack

SpecPlaylist == InitPlaylist /\ [][NextPlaylist]_vars

(***************************************************************************)
(* The gateway itself: SpotifyClient (src/spotify/client.py) in front of   *)
(* the provider SDK.  One behaviour is one call of one client operation;   *)
(* `sdk` logs the requests that reach the provider.                        *)
(***************************************************************************)
ClientOps ==
    {"client.get_user_profile", "client.get_liked_track_ids",
     "client.get_audio_features", "client.get_tracks", "client.search_tracks",
     "client.create_playlist", "client.add_tracks_to_playlist"}

\* HTTP statuses a SpotifyException carries
Statuses == {400, 401, 403, 404, 429, 500}

\* what one provider request can do: answer with a well-formed payload, with
\* a payload whose entries are missing (None entries, absent keys), with a
\* payload of the wrong type (None), or raise
Failures ==
    {[kind |-> "SpotifyException", status |-> st, shape |-> "", items |-> 0,
      next |-> FALSE] : st \in Statuses}
    \cup {[kind |-> "Exception", status |-> 0, shape |-> "", items |-> 0,
           next |-> FALSE]}

ProviderOutcomes ==
    {[kind |-> "ok", status |-> 200, shape |-> sh, items |-> 0, next |-> FALSE] :
        sh \in {"good", "sparse", "broken"}}
    \cup Failures

\* a page of saved tracks: up to MaxPageItems items and a link to the next
\* page; the provider has at most MaxPages pages
PageOutcomes ==
    {[kind |-> "ok", status |-> 200, shape |-> sh, items |-> n, next |-> nx] :
        sh \in {"good", "sparse", "broken"}, n \in 0..MaxPageItems,
        nx \in {b \in BOOLEAN : b => Len(sdk) + 1 < MaxPages}}
    \cup Failures

HandleWithAuth_No401(out) == "APIError"

\* client.py:184-191, 227-234, 474-481
HandleWithAuth(out) ==
    IF out.kind = "SpotifyException"
    THEN IF out.status = 401 THEN "AuthenticationError" ELSE "APIError"
    ELSE "APIError"

HandlePlain_Reraises(out) ==
    IF out.kind = "SpotifyException" THEN "APIError" ELSE out.kind

\* client.py:311-316, 352-357, 394-399, 507-512
HandlePlain(out) ==
    IF out.kind = "SpotifyException" THEN "APIError" ELSE "APIError"

\* a payload of the wrong type makes the parsing code raise inside the try
ParseFails(out) == out.kind = "ok" /\ out.shape = "broken"

\* the entries of a payload that carry data: all of them, or every second one
Usable(ids, out) ==
    IF out.shape = "good" THEN ids
    ELSE [k \in 1..(Len(ids) \div 2) |-> ids[2 * k]]

Whitespace == {" ", "\t", "\n"}

\* str.strip() leaves nothing: every character is whitespace
Blank(query) == \A k \in DOMAIN query : query[k] \in Whitespace

TooManyFeatures_Off(ids) == FALSE

\* client.py:286
TooManyFeatures(ids) == Len(ids) > CLIENT_FEATURES_MAX

\* client.py:332
TooManyTracks(ids) == Len(ids) > CLIENT_TRACKS_MAX

\* client.py:375-378
BadSearch(query, n) == n > CLIENT_SEARCH_MAX \/ Blank(query)

\* client.py:495-498
BadAppend(ids) == ids = <<>> \/ Len(ids) > CLIENT_ADD_MAX

\* the locals of a client operation
ClientStep(p, t, ii, res) ==
    /\ pc' = p /\ track_ids' = t /\ i' = ii /\ result' = res
    /\ UNCHANGED <<j, features, tracks, q, playlist, source>>

\* a ValidationError raised before the try block
Rejected ==
    /\ ClientStep("done", <<>>, 0, Raised("ValidationError"))
    /\ UNCHANGED extVars

\* one request to the provider SDK
Request(fn, n, out) ==
    /\ sdk' = Append(sdk, [fn |-> fn, n |-> n])
    /\ provider' = out
    /\ UNCHANGED scored_list

\* the outcome of an operation whose try block made one request and then
\* parsed the payload into `value`
Answer(out, exc, value) ==
    IF out.kind # "ok" THEN Raised(exc)
    ELSE IF ParseFails(out) THEN Raised("APIError")
    ELSE Return(value)

\* client.py:169-191
GetUserProfile ==
    /\ op = "client.get_user_profile" /\ pc = "start"
    /\ \E out \in ProviderOutcomes :
         /\ Request("current_user", 0, out)
         /\ ClientStep("done", <<>>, 0,
               Answer(out, HandleWithAuth(out),
                      [user_id |-> IF out.shape = "good" THEN 1 ELSE 0]))
    /\ UNCHANGED <<inputVars, gwVars>>

\* the IDs _extract_track_ids finds in the page the latest request returned
PageIds(out) ==
    Usable([k \in 1..out.items |-> Len(sdk) * MaxPageItems + k], out)

\* client.py:218-225: after a page, the loop goes on or the list is returned
AfterPage(out, ids) ==
    IF out.kind # "ok" THEN ClientStep("done", <<>>, 0, Raised(HandleWithAuth(out)))
    ELSE IF ParseFails(out) THEN ClientStep("done", <<>>, 0, Raised("APIError"))
    ELSE IF out.next /\ Len(ids) < limit
         THEN ClientStep("next_page", ids, 0, Pending)
         ELSE ClientStep("done", <<>>, 0, Return(Prefix(ids, limit)))

\* client.py:210-216 and 227-234: the first page
GetLikedTrackIds ==
    /\ op = "client.get_liked_track_ids" /\ pc = "start"
    /\ \E out \in PageOutcomes :
         /\ Request("current_user_saved_tracks", LIKED_PAGE, out)
         /\ AfterPage(out, PageIds(out))
    /\ UNCHANGED <<inputVars, gwVars>>

\* client.py:220-222: a later page
LikedNextPage ==
    /\ op = "client.get_liked_track_ids" /\ pc = "next_page"
    /\ \E out \in PageOutcomes :
         /\ Request("next", 0, out)
         /\ AfterPage(out, track_ids \o PageIds(out))
    /\ UNCHANGED <<inputVars, gwVars>>

\* client.py:286-316
GetAudioFeatures ==
    /\ op = "client.get_audio_features" /\ pc = "start"
    /\ IF TooManyFeatures(in_ids) THEN Rejected
       ELSE \E out \in ProviderOutcomes :
              /\ Request("audio_features", Len(in_ids), out)
              /\ ClientStep("done", <<>>, 0,
                    Answer(out, HandlePlain(out), Usable(in_ids, out)))
    /\ UNCHANGED <<inputVars, gwVars>>

\* client.py:332-357
GetTracks ==
    /\ op = "client.get_tracks" /\ pc = "start"
    /\ IF TooManyTracks(in_ids) THEN Rejected
       ELSE \E out \in ProviderOutcomes :
              /\ Request("tracks", Len(in_ids), out)
              /\ ClientStep("done", <<>>, 0,
                    Answer(out, HandlePlain(out), Usable(in_ids, out)))
    /\ UNCHANGED <<inputVars, gwVars>>

\* client.py:375-399
SearchTracks ==
    /\ op = "client.search_tracks" /\ pc = "start"
    /\ IF BadSearch(text, limit) THEN Rejected
       ELSE \E out \in ProviderOutcomes :
              /\ Request("search", limit, out)
              /\ ClientStep("done", <<>>, 0,
                    Answer(out, HandlePlain(out),
                           Usable([k \in 1..Min(limit, MaxHits) |-> k], out)))
    /\ UNCHANGED <<inputVars, gwVars>>

\* client.py:452-481
ClientCreatePlaylist ==
    /\ op = "client.create_playlist" /\ pc = "start"
    /\ \E out \in ProviderOutcomes :
         /\ Request("user_playlist_create", 0, out)
         /\ ClientStep("done", <<>>, 0,
               Answer(out, HandleWithAuth(out),
                      [NewPlaylist EXCEPT
                          !.playlist_id = IF out.shape = "good" THEN 1 ELSE 0]))
    /\ UNCHANGED <<inputVars, gwVars>>

\* client.py:495-512: the payload of playlist_add_items is not looked at
AddTracksToPlaylist ==
    /\ op = "client.add_tracks_to_playlist" /\ pc = "start"
    /\ IF BadAppend(in_ids) THEN Rejected
       ELSE \E out \in ProviderOutcomes :
              /\ Request("playlist_add_items", Len(in_ids), out)
              /\ ClientStep("done", <<>>, 0,
                    IF out.kind # "ok" THEN Raised(HandlePlain(out))
                    ELSE ReturnedNone)
    /\ UNCHANGED <<inputVars, gwVars>>

\* the ID lists around the ceilings
ClientIdLists ==
    {[k \in 1..n |-> k] :
        n \in {0, 1, CLIENT_TRACKS_MAX, CLIENT_TRACKS_MAX + 1,
               CLIENT_FEATURES_MAX, CLIENT_FEATURES_MAX + 1}}

ClientQueries ==
    {<<>>, <<" ">>, <<" ", "\t", "\n">>, <<"p", "o", "p">>, <<" ", "p", " ">>}

InitClient ==
    /\ op \in ClientOps
    /\ mood = "Happy"
    /\ use_user_library = FALSE
    /\ user_track_ids = [given |-> FALSE, ids |-> <<>>]
    /\ track_features = NoFeatures
    /\ target_features = ToDict(Preset("Happy"))
    /\ catalog = <<>>
    /\ in_ids \in IF op \in {"client.get_audio_features", "client.get_tracks",
                            "client.add_tracks_to_playlist"}
                 THEN ClientIdLists ELSE {<<>>}
    /\ text \in IF op = "client.search_tracks" THEN ClientQueries ELSE {<<>>}
    /\ limit \in IF op = "client.search_tracks"
                THEN {1, CLIENT_SEARCH_MAX, CLIENT_SEARCH_MAX + 1}
                ELSE IF op = "client.get_liked_track_ids"
                THEN {0, 1, MaxPageItems + 1, 300}
                ELSE {LIMIT_MIN}
    /\ InitCommon

NextClient ==
    \/ GetUserProfile \/ GetLikedTrackIds \/ LikedNextPage \/ GetAudioFeatures
    \/ GetTracks \/ SearchTracks \/ ClientCreatePlaylist \/ AddTracksToPlaylist

SpecClient == InitClient /\ [][NextClient]_vars

(***************************************************************************)
(* The two scorers as functions of their arguments:                        *)
(* AudioFeatures.calculate_mood_score (models.py) and score_track_match    *)
(* (app.py).  score_track_match is kept in two-hundredths.                 *)
(***************************************************************************)
\* float('inf'): after every finite score
Infinity == 1000000

FeatureKeys == {"valence", "energy", "danceability", "tempo"}

\* dict.get(key, default)
Get(d, key, default) == IF key \in DOMAIN d THEN d[key] ELSE default

\* `not track_features`: None or an empty dict
Falsy(tf) == tf.none \/ DOMAIN tf.dict = {}

score_track_match_TempoOver100(tf, target) ==
    IF Falsy(tf) THEN Infinity
    ELSE   Abs(Get(tf.dict, "valence", 5) - target.valence) * 50
         + Abs(Get(tf.dict, "energy", 5) - target.energy) * 40
         + Abs(Get(tf.dict, "danceability", 5) - target.danceability) * 30
         + Abs(Get(tf.dict, "tempo", 120) - target.tempo) * 2

\* app.py:518-541, in two-hundredths
score_track_match(tf, target) ==
    IF Falsy(tf) THEN Infinity
    ELSE   Abs(Get(tf.dict, "valence", 5) - target.valence) * 50
         + Abs(Get(tf.dict, "energy", 5) - target.energy) * 40
         + Abs(Get(tf.dict, "danceability", 5) - target.danceability) * 30
         + Abs(Get(tf.dict, "tempo", 120) - target.tempo)

\* feature values (tenths) and tempos the scorers are tried on
GridVals == {0, 5, 8, 10}
TempoVals == {60, 120, 140}

\* the dicts over the keys K
DictsOver(K) ==
    {d \in [K -> GridVals \cup TempoVals] :
        \A k \in K : IF k = "tempo" THEN d[k] \in TempoVals ELSE d[k] \in GridVals}

\* an AudioFeatures object has all four fields
AudioFeaturesInputs == {Dict(d) : d \in DictsOver(FeatureKeys)}

\* a features dict of the provider: None, empty, only an id, or any subset
\* of the four features
FeatureDictInputs ==
    {NoFeatures, Dict([k \in {"id"} |-> 1])}
        \cup {Dict(d) : d \in UNION {DictsOver(K) : K \in SUBSET FeatureKeys}}

TargetInputs ==
    [valence : GridVals, energy : GridVals, danceability : {5, 8},
     tempo : {120, 140}]

\* models.py:155-187
CalculateMoodScore ==
    /\ op = "score.default" /\ pc = "start"
    /\ Finish(Return(calculate_mood_score(track_features.dict, target_features)),
              "none")
    /\ UNCHANGED <<inputVars, gwVars, extVars>>

\* app.py:518-541
ScoreTrackMatch ==
    /\ op = "score.strict" /\ pc = "start"
    /\ Finish(Return(score_track_match(track_features, target_features)), "none")
    /\ UNCHANGED <<inputVars, gwVars, extVars>>

InitScore ==
    /\ \/ op = "score.default" /\ track_features \in AudioFeaturesInputs
       \/ op = "score.strict" /\ track_features \in FeatureDictInputs
    /\ target_features \in TargetInputs
    /\ mood = "Custom"
    /\ limit = LIMIT_MIN
    /\ use_user_library = FALSE
    /\ user_track_ids = [given |-> FALSE, ids |-> <<>>]
    /\ in_ids = <<>>
    /\ text = <<>>
    /\ catalog = <<>>
    /\ InitCommon

NextScore == CalculateMoodScore \/ ScoreTrackMatch

SpecScore == InitScore /\ [][NextScore]_vars

(***************************************************************************)
(* filter_tracks_by_mood (app.py): the candidates of a search are ranked   *)
(* by score_track_match.  A track is its ID; 0 is a track without an id.   *)
(***************************************************************************)
\* the audio features of track t as the provider sends them
AppFeatures(t) ==
    [id |-> t, valence |-> CatalogFeatures[t].valence,
     energy |-> CatalogFeatures[t].energy,
     danceability |-> CatalogFeatures[t].danceability,
     tempo |-> CatalogFeatures[t].tempo]

EntryKinds == {"none", "empty", "noid", "full"}

\* the entry of sp.audio_features for track t: None, {}, features without an
\* id, or features with the track's id
Entry(t) ==
    CASE catalog[t] = "none" -> NoFeatures
      [] catalog[t] = "empty" -> Dict(<<>>)
      [] catalog[t] = "noid" -> Dict([k \in FeatureKeys |-> AppFeatures(t)[k]])
      [] OTHER -> Dict(AppFeatures(t))

\* app.py:573: [f for f in features_batch if f]
Truthy(entries) == SelectSeq(entries, LAMBDA f : ~Falsy(f))

\* app.py:584: features_by_id, as the set of its keys
FeaturesById(all_features) ==
    {f.dict["id"] : f \in {g \in Range(all_features) : "id" \in DOMAIN g.dict}}

\* app.py:586-594: the candidates that have features, scored, in input order
RECURSIVE ScoreCandidates(_, _, _)
ScoreCandidates(ts, by_id, target) ==
    IF ts = <<>> THEN <<>>
    ELSE LET t == Head(ts)
             rest == ScoreCandidates(Tail(ts), by_id, target)
         IN  IF t # 0 /\ t \in by_id
             THEN <<<<t, score_track_match(Dict(AppFeatures(t)), target)>>>> \o rest
             ELSE rest

FilterResult_Unranked(ts, scored, n) == Prefix(ts, n)

\* app.py:596-601
FilterResult(ts, scored, n) ==
    IF scored = <<>> THEN Prefix(ts, n)
    ELSE [k \in 1..Min(n, Len(scored)) |-> SortByScore(scored)[k][1]]

\* the locals of filter_tracks_by_mood
FilterStep(p, t, ii, f, sc, res) ==
    /\ pc' = p /\ track_ids' = t /\ i' = ii /\ features' = f
    /\ scored_list' = sc /\ result' = res
    /\ UNCHANGED <<j, tracks, q, playlist, source>>

\* app.py:578-601: after the last batch
FilterFinish(all_features) ==
    IF all_features = <<>>
    THEN FilterStep("done", track_ids, 0, all_features, <<>>,
                    Return(Prefix(in_ids, limit)))
    ELSE LET scored == ScoreCandidates(in_ids, FeaturesById(all_features),
                                       target_features)
         IN  FilterStep("done", track_ids, 0, all_features,
                        IF scored = <<>> THEN <<>> ELSE SortByScore(scored),
                        Return(FilterResult(in_ids, scored, limit)))

\* app.py:557-564: the guards before the first request
FilterTracksByMood ==
    /\ op = "filter" /\ pc = "start"
    /\ LET ids == SelectSeq(in_ids, LAMBDA t : t # 0)
       IN  IF in_ids = <<>> \/ ids = <<>>
           THEN FilterStep("done", <<>>, 0, <<>>, <<>>, Return(<<>>))
           ELSE FilterStep("filter_batch", ids, 0, <<>>, <<>>, Pending)
    /\ UNCHANGED <<inputVars, gwVars, sdk, provider>>

\* app.py:569-576: one sp.audio_features request, failures skipped
FilterBatch ==
    /\ op = "filter" /\ pc = "filter_batch"
    /\ LET batch == Slice(track_ids, i, i + APP_FEATURE_BATCH)
       IN  \E out \in {o \in ProviderOutcomes : o.shape # "sparse"} :
             /\ sdk' = Append(sdk, [fn |-> "audio_features", n |-> Len(batch)])
             /\ provider' = out
             /\ LET got == IF out.kind = "ok" /\ ~ParseFails(out)
                           THEN Truthy([k \in DOMAIN batch |-> Entry(batch[k])])
                           ELSE <<>>
                    all_features == features \o got
                IN  IF i + APP_FEATURE_BATCH < Len(track_ids)
                    THEN FilterStep("filter_batch", track_ids,
                                    i + APP_FEATURE_BATCH, all_features, <<>>, Pending)
                    ELSE FilterFinish(all_features)
    /\ UNCHANGED <<inputVars, gwVars>>

\* the candidate lists: distinct tracks in any order, some with no id
CandidateInputs ==
    UNION {InjSeqs(Ids, n) : n \in 0..MaxId} \cup {<<0>>, <<0, 1, 2>>}

InitRank ==
    /\ op = "filter"
    /\ in_ids \in CandidateInputs
    /\ limit \in 1..MaxSmallLimit
    /\ target_features \in {ToDict(Preset("Happy")), ToDict(Preset("Sad"))}
    /\ catalog \in [Ids -> EntryKinds]
    /\ mood = "Happy"
    /\ use_user_library = FALSE
    /\ user_track_ids = [given |-> FALSE, ids |-> <<>>]
    /\ text = <<>>
    /\ track_features = NoFeatures
    /\ InitCommon

NextRank == FilterTracksByMood \/ FilterBatch

SpecRank == InitRank /\ [][NextRank]_vars

(***************************************************************************)
(* parse_mood_from_text (app.py).  A text is the list of its characters,   *)
(* so that lower(), capitalize() and `in` work on what the text contains.  *)
(***************************************************************************)
UpperLetters == <<"A", "B", "C", "D", "E", "F", "G", "H", "I", "J", "K", "L", "M", "N", "O", "P", "Q", "R", "S", "T", "U", "V", "W", "X", "Y", "Z">>
LowerLetters == <<"a", "b", "c", "d", "e", "f", "g", "h", "i", "j", "k", "l", "m", "n", "o", "p", "q", "r", "s", "t", "u", "v", "w", "x", "y", "z">>

\* str.lower() and str.upper() of one character
LowerChar(c) ==
    IF \E k \in DOMAIN UpperLetters : UpperLetters[k] = c
    THEN LowerLetters[CHOOSE k \in DOMAIN UpperLetters : UpperLetters[k] = c]
    ELSE c
UpperChar(c) ==
    IF \E k \in DOMAIN LowerLetters : LowerLetters[k] = c
    THEN UpperLetters[CHOOSE k \in DOMAIN LowerLetters : LowerLetters[k] = c]
    ELSE c

\* str.lower()
LowerText(t) == [k \in DOMAIN t |-> LowerChar(t[k])]

Capitalize_Unchanged(t) == t

\* str.capitalize(): the first character upper-cased, the others lower-cased
Capitalize(t) ==
    [k \in DOMAIN t |-> IF k = 1 THEN UpperChar(t[k]) ELSE LowerChar(t[k])]

\* `needle in hay` for strings
Contains(needle, hay) ==
    \E start \in 0..(Len(hay) - Len(needle)) :
        \A k \in DOMAIN needle : hay[start + k] = needle[k]

\* app.py:25-68, values in tenths
MOOD_PRESETS ==
    << [name |-> <<"H", "a", "p", "p", "y">>,
        features |-> [valence |-> 8, energy |-> 7, danceability |-> 7, tempo |-> 120]],
       [name |-> <<"C", "h", "i", "l", "l">>,
        features |-> [valence |-> 5, energy |-> 3, danceability |-> 4, tempo |-> 90]],
       [name |-> <<"F", "o", "c", "u", "s">>,
        features |-> [valence |-> 4, energy |-> 4, danceability |-> 3, tempo |-> 100]],
       [name |-> <<"S", "a", "d">>,
        features |-> [valence |-> 2, energy |-> 3, danceability |-> 3, tempo |-> 80]],
       [name |-> <<"H", "y", "p", "e">>,
        features |-> [valence |-> 7, energy |-> 9, danceability |-> 8, tempo |-> 140]],
       [name |-> <<"R", "o", "m", "a", "n", "t", "i", "c">>,
        features |-> [valence |-> 6, energy |-> 4, danceability |-> 5, tempo |-> 95]] >>

\* app.py:72-79
CHATBOT_MOOD_KEYWORDS ==
    << [mood |-> <<"h", "a", "p", "p", "y">>,
        keywords |-> <<<<"h", "a", "p", "p", "y">>,
                       <<"j", "o", "y", "f", "u", "l">>,
                       <<"c", "h", "e", "e", "r", "f", "u", "l">>,
                       <<"u", "p", "b", "e", "a", "t">>,
                       <<"p", "o", "s", "i", "t", "i", "v", "e">>,
                       <<"e", "x", "c", "i", "t", "e", "d">>,
                       <<"f", "u", "n">>,
                       <<"p", "a", "r", "t", "y">>>>],
       [mood |-> <<"c", "h", "i", "l", "l">>,
        keywords |-> <<<<"c", "h", "i", "l", "l">>,
                       <<"r", "e", "l", "a", "x">>,
                       <<"c", "a", "l", "m">>,
                       <<"m", "e", "l", "l", "o", "w">>,
                       <<"l", "a", "i", "d", " ", "b", "a", "c", "k">>,
                       <<"e", "a", "s", "y">>,
                       <<"p", "e", "a", "c", "e", "f", "u", "l">>,
                       <<"a", "m", "b", "i", "e", "n", "t">>>>],
       [mood |-> <<"f", "o", "c", "u", "s">>,
        keywords |-> <<<<"f", "o", "c", "u", "s">>,
                       <<"s", "t", "u", "d", "y">>,
                       <<"c", "o", "n", "c", "e", "n", "t", "r", "a", "t", "e">>,
                       <<"w", "o", "r", "k">>,
                       <<"p", "r", "o", "d", "u", "c", "t", "i", "v", "i", "t", "y">>,
                       <<"c", "o", "d", "i", "n", "g">>,
                       <<"r", "e", "a", "d", "i", "n", "g">>>>],
       [mood |-> <<"s", "a", "d">>,
        keywords |-> <<<<"s", "a", "d">>,
                       <<"m", "e", "l", "a", "n", "c", "h", "o", "l", "y">>,
                       <<"e", "m", "o", "t", "i", "o", "n", "a", "l">>,
                       <<"c", "r", "y">>,
                       <<"h", "e", "a", "r", "t", "b", "r", "e", "a", "k">>,
                       <<"d", "e", "p", "r", "e", "s", "s", "e", "d">>,
                       <<"d", "o", "w", "n">>,
                       <<"b", "l", "u", "e">>>>],
       [mood |-> <<"h", "y", "p", "e">>,
        keywords |-> <<<<"h", "y", "p", "e">>,
                       <<"e", "n", "e", "r", "g", "e", "t", "i", "c">>,
                       <<"w", "o", "r", "k", "o", "u", "t">>,
                       <<"g", "y", "m">>,
                       <<"p", "u", "m", "p">>,
                       <<"i", "n", "t", "e", "n", "s", "e">>,
                       <<"m", "o", "t", "i", "v", "a", "t", "e">>,
                       <<"p", "o", "w", "e", "r">>>>],
       [mood |-> <<"r", "o", "m", "a", "n", "t", "i", "c">>,
        keywords |-> <<<<"r", "o", "m", "a", "n", "t", "i", "c">>,
                       <<"l", "o", "v", "e">>,
                       <<"d", "a", "t", "e">>,
                       <<"v", "a", "l", "e", "n", "t", "i", "n", "e">>,
                       <<"c", "o", "u", "p", "l", "e">>,
                       <<"i", "n", "t", "i", "m", "a", "t", "e">>,
                       <<"s", "e", "n", "s", "u", "a", "l">>>>] >>

\* app.py:82-99
ACTIVITY_MOOD_MAP ==
    << [activity |-> <<"w", "o", "r", "k", "o", "u", "t">>, mood |-> <<"H", "y", "p", "e">>],
       [activity |-> <<"g", "y", "m">>, mood |-> <<"H", "y", "p", "e">>],
       [activity |-> <<"e", "x", "e", "r", "c", "i", "s", "e">>, mood |-> <<"H", "y", "p", "e">>],
       [activity |-> <<"r", "u", "n", "n", "i", "n", "g">>, mood |-> <<"H", "y", "p", "e">>],
       [activity |-> <<"s", "t", "u", "d", "y">>, mood |-> <<"F", "o", "c", "u", "s">>],
       [activity |-> <<"w", "o", "r", "k">>, mood |-> <<"F", "o", "c", "u", "s">>],
       [activity |-> <<"c", "o", "d", "i", "n", "g">>, mood |-> <<"F", "o", "c", "u", "s">>],
       [activity |-> <<"r", "e", "a", "d", "i", "n", "g">>, mood |-> <<"F", "o", "c", "u", "s">>],
       [activity |-> <<"s", "l", "e", "e", "p">>, mood |-> <<"C", "h", "i", "l", "l">>],
       [activity |-> <<"m", "e", "d", "i", "t", "a", "t", "e">>, mood |-> <<"C", "h", "i", "l", "l">>],
       [activity |-> <<"y", "o", "g", "a">>, mood |-> <<"C", "h", "i", "l", "l">>],
       [activity |-> <<"p", "a", "r", "t", "y">>, mood |-> <<"H", "a", "p", "p", "y">>],
       [activity |-> <<"d", "a", "n", "c", "e">>, mood |-> <<"H", "a", "p", "p", "y">>],
       [activity |-> <<"c", "e", "l", "e", "b", "r", "a", "t", "e">>, mood |-> <<"H", "a", "p", "p", "y">>],
       [activity |-> <<"d", "a", "t", "e">>, mood |-> <<"R", "o", "m", "a", "n", "t", "i", "c">>],
       [activity |-> <<"d", "i", "n", "n", "e", "r">>, mood |-> <<"R", "o", "m", "a", "n", "t", "i", "c">>] >>

\* app.py:130 and 134
MoreEnergyWords == << <<"m", "o", "r", "e", " ", "e", "n", "e", "r", "g", "y">>, <<"e", "n", "e", "r", "g", "e", "t", "i", "c">>, <<"f", "a", "s", "t", "e", "r">>, <<"u", "p", "b", "e", "a", "t">> >>
CalmerWords == << <<"s", "l", "o", "w", "e", "r">>, <<"c", "a", "l", "m", "e", "r">>, <<"q", "u", "i", "e", "t", "e", "r">>, <<"s", "o", "f", "t", "e", "r">> >>

\* MOOD_PRESETS[name]: the index of the key, 0 for a KeyError
PresetIndex(name) ==
    IF \E k \in DOMAIN MOOD_PRESETS : MOOD_PRESETS[k].name = name
    THEN CHOOSE k \in DOMAIN MOOD_PRESETS : MOOD_PRESETS[k].name = name
    ELSE 0

\* what parse_mood_from_text returns, or the KeyError of the lookup
Parsed(name, explanation) ==
    IF PresetIndex(name) = 0 THEN Raised("KeyError")
    ELSE Return([mood |-> name,
                 features |-> MOOD_PRESETS[PresetIndex(name)].features,
                 explanation |-> explanation])

RECURSIVE FirstActivity_Last(_, _)
FirstActivity_Last(lower, k) ==
    IF k > Len(ACTIVITY_MOOD_MAP) THEN 0
    ELSE LET later == FirstActivity_Last(lower, k + 1)
         IN  IF later # 0 THEN later
             ELSE IF Contains(ACTIVITY_MOOD_MAP[k].activity, lower) THEN k ELSE 0

RECURSIVE FirstActivity(_, _)
\* app.py:110-113: the first activity from entry k on that the text contains
FirstActivity(lower, k) ==
    IF k > Len(ACTIVITY_MOOD_MAP) THEN 0
    ELSE IF Contains(ACTIVITY_MOOD_MAP[k].activity, lower) THEN k
    ELSE FirstActivity(lower, k + 1)

\* app.py:118
KeywordScore(lower, keywords) ==
    Cardinality({k \in DOMAIN keywords : Contains(keywords[k], lower)})

\* app.py:116-120: the moods with a positive score, as indices of the table
MoodScores(lower) ==
    {k \in DOMAIN CHATBOT_MOOD_KEYWORDS :
        KeywordScore(lower, CHATBOT_MOOD_KEYWORDS[k].keywords) > 0}

BestMood_Last(lower) ==
    LET score(k) == KeywordScore(lower, CHATBOT_MOOD_KEYWORDS[k].keywords)
        best == {k \in MoodScores(lower) :
                    \A m \in MoodScores(lower) : score(m) <= score(k)}
    IN  CHOOSE k \in best : \A m \in best : k >= m

\* app.py:124: max() keeps the first of the keys with the highest score
BestMood(lower) ==
    LET score(k) == KeywordScore(lower, CHATBOT_MOOD_KEYWORDS[k].keywords)
        best == {k \in MoodScores(lower) :
                    \A m \in MoodScores(lower) : score(m) <= score(k)}
    IN  CHOOSE k \in best : \A m \in best : k <= m

\* any(word in user_input_lower for word in words)
AnyWord(lower, words) == \E k \in DOMAIN words : Contains(words[k], lower)

\* app.py:102-139
parse_mood_from_text(user_input) ==
    LET lower == LowerText(user_input)
        hit == FirstActivity(lower, 1)
    IN  IF hit # 0
        THEN Parsed(ACTIVITY_MOOD_MAP[hit].mood,
                    "Perfect for {activity}! Setting mood to {mood}.")
        ELSE IF MoodScores(lower) # {}
        THEN Parsed(Capitalize(CHATBOT_MOOD_KEYWORDS[BestMood(lower)].mood),
                    "Detected {mood_name} mood from your request!")
        ELSE IF AnyWord(lower, MoreEnergyWords)
        THEN Parsed(<<"H", "y", "p", "e">>, "You want high energy! Setting to Hype mode.")
        ELSE IF AnyWord(lower, CalmerWords)
        THEN Parsed(<<"C", "h", "i", "l", "l">>, "You want something calmer! Setting to Chill mode.")
        ELSE Parsed(<<"H", "a", "p", "p", "y">>, "No specific mood detected, showing upbeat tracks!")

\* one call of parse_mood_from_text
ParseMoodFromText ==
    /\ op = "parse" /\ pc = "start"
    /\ Finish(parse_mood_from_text(text), "none")
    /\ UNCHANGED <<inputVars, gwVars, extVars>>

\* the words the texts are made of
Vocabulary ==
    { <<"w", "o", "r", "k", "o", "u", "t">>,
      <<"G", "y", "m">>,
      <<"S", "T", "U", "D", "Y">>,
      <<"p", "a", "r", "t", "y">>,
      <<"d", "a", "t", "e">>,
      <<"y", "o", "g", "a">>,
      <<"h", "a", "p", "p", "y">>,
      <<"s", "a", "d">>,
      <<"c", "h", "i", "l", "l">>,
      <<"l", "o", "v", "e">>,
      <<"b", "l", "u", "e">>,
      <<"f", "o", "c", "u", "s">>,
      <<"u", "p", "b", "e", "a", "t">>,
      <<"e", "n", "e", "r", "g", "e", "t", "i", "c">>,
      <<"h", "y", "p", "e">>,
      <<"f", "a", "s", "t", "e", "r">>,
      <<"s", "l", "o", "w", "e", "r">>,
      <<"m", "o", "r", "e", " ", "e", "n", "e", "r", "g", "y">>,
      <<"c", "a", "l", "m", "e", "r">>,
      <<"a", "s", "d", "f", "q", "w", "e", "r", "t", "y">>,
      <<"I", " ", "n", "e", "e", "d", " ", "w", "o", "r", "k", "o", "u", "t", " ", "m", "u", "s", "i", "c">>,
      <<"m", "u", "s", "i", "c">>,
      <<"u", "p", "d", "a", "t", "e">>,
      <<"h", "o", "m", "e", "w", "o", "r", "k">>,
      <<"S", "a", "d", " ", "s", "a", "d">>,
      <<"B", "l", "u", "e", " ", "a", "n", "d", " ", "d", "o", "w", "n">> }

RECURSIVE Join(_)
\* the words of ws with a blank between them
Join(ws) ==
    IF ws = <<>> THEN <<>>
    ELSE IF Len(ws) = 1 THEN ws[1]
    ELSE ws[1] \o <<" ">> \o Join(Tail(ws))

ParseTexts == {Join(ws) : ws \in UNION {[1..n -> Vocabulary] : n \in 0..MaxWords}}

InitParse ==
    /\ op = "parse"
    /\ text \in ParseTexts
    /\ mood = "Happy"
    /\ limit = LIMIT_MIN
    /\ use_user_library = FALSE
    /\ user_track_ids = [given |-> FALSE, ids |-> <<>>]
    /\ in_ids = <<>>
    /\ track_features = NoFeatures
    /\ target_features = ToDict(Preset("Happy"))
    /\ catalog = <<>>
    /\ InitCommon

NextParse == ParseMoodFromText

SpecParse == InitParse /\ [][NextParse]_vars

(***************************************************************************)
(* get_recommendations (app.py): the front end's own ladder, driven by the *)
(* outcomes of the provider requests it makes.                             *)
(***************************************************************************)
\* app.py:507-516
get_mood_search_query(selected_mood) ==
    CASE selected_mood = "Happy"    -> "happy upbeat cheerful positive"
      [] selected_mood = "Chill"    -> "chill relaxed mellow ambient"
      [] selected_mood = "Focus"    -> "focus study concentration ambient"
      [] selected_mood = "Sad"      -> "sad melancholy emotional ballad"
      [] selected_mood = "Hype"     -> "hype energetic pump party workout"
      [] selected_mood = "Romantic" -> "romantic love beautiful emotional"
      [] OTHER                      -> "pop"

\* app.py:494-502 through normalize_genres: the first validated genre seed
FirstSeedGenre(selected_mood) ==
    CASE selected_mood = "Happy"    -> "pop"
      [] selected_mood = "Chill"    -> "ambient"
      [] selected_mood = "Focus"    -> "ambient"
      [] selected_mood = "Sad"      -> "acoustic"
      [] selected_mood = "Hype"     -> "edm"
      [] selected_mood = "Romantic" -> "romance"
      [] OTHER                      -> "pop"

\* app.py:699-704; energy is in tenths
app_year_filter(mood_features) ==
    IF mood_features.energy > 7 THEN " year:2018-2025"
    ELSE IF mood_features.energy > 4 THEN " year:2010-2025"
    ELSE " year:2000-2025"

\* app.py:710-781: the query of the n-th search attempt
AppQuery(n) ==
    CASE n = 1 -> [genre |-> "", kw |-> get_mood_search_query(mood),
                   year |-> app_year_filter(target_features)]
      [] n = 2 -> [genre |-> "", kw |-> get_mood_search_query(mood), year |-> ""]
      [] n = 3 -> [genre |-> "", kw |-> Lower(mood), year |-> ""]
      [] n = 4 -> [genre |-> "genre:" \o FirstSeedGenre(mood),
                   kw |-> get_mood_search_query(mood), year |-> ""]
      [] OTHER -> [genre |-> "", kw |-> get_mood_search_query(mood), year |-> ""]

\* app.py:712, 780
AppSearchLimit(n) ==
    IF n < APP_ATTEMPTS THEN APP_SEARCH_LIMIT ELSE limit * APP_LAST_FACTOR

\* app.py:613
AppLibraryEligible ==
    /\ use_user_library
    /\ user_track_ids.given
    /\ user_track_ids.ids # <<>>
    /\ Len(user_track_ids.ids) >= limit

\* app.py:644-647, in hundredths
library_score(f, mood_features) ==
      Abs(Get(f, "valence", 5) - mood_features.valence) * 20
    + Abs(Get(f, "energy", 5) - mood_features.energy) * 15
    + Abs(Get(f, "danceability", 5) - mood_features.danceability) * 12

\* app.py:638-649: the features that carry an id, scored, in list order
RECURSIVE LibraryScored(_, _)
LibraryScored(fs, mood_features) ==
    IF fs = <<>> THEN <<>>
    ELSE LET f == Head(fs)
             rest == LibraryScored(Tail(fs), mood_features)
         IN  IF Falsy(f) \/ "id" \notin DOMAIN f.dict THEN rest
             ELSE <<<<f.dict["id"], library_score(f.dict, mood_features)>>>> \o rest

\* a provider request of the ladder answers or raises
AppOutcomes ==
    {[kind |-> k, status |-> 0, shape |-> "", items |-> 0, next |-> FALSE] :
        k \in {"ok", "Exception"}}

AppRequest(fn, n, query, out) ==
    /\ sdk' = Append(sdk, [fn |-> fn, n |-> n, query |-> query])
    /\ provider' = out
    /\ UNCHANGED scored_list

NoAppQuery == [genre |-> "", kw |-> "", year |-> ""]

\* app.py:687-707: the search-based approach starts
AppStartSearch == Goto("app_search", <<>>, 0, 0, <<>>, <<>>, 1)

\* app.py:724, 740, 757, 775, 791-793: the next attempt, or no tracks at all
AppNextAttempt ==
    IF q < APP_ATTEMPTS
    THEN Goto("app_search", <<>>, 0, 0, <<>>, <<>>, q + 1)
    ELSE Finish(Return(<<>>), "none")

\* app.py:669-676: random songs of the library
RandomFallback ==
    \E selected_ids \in RandomSample(user_track_ids.ids,
                                     Min(limit, Len(user_track_ids.ids))) :
        Goto("app_random_tracks", selected_ids, 0, 0, <<>>, <<>>, 0)

TooFewFeatures_Never(audio_features_list) == FALSE

\* app.py:635
TooFewFeatures(audio_features_list) == Len(audio_features_list) < limit

\* app.py:635-658: the features are in
AfterLibraryFeatures(audio_features_list) ==
    IF TooFewFeatures(audio_features_list) THEN RandomFallback
    ELSE LET scored_tracks ==
                 SortByScore(LibraryScored(audio_features_list, target_features))
             best_track_ids == BestTrackIds(scored_tracks, limit)
         IN  IF best_track_ids = <<>> THEN RandomFallback
             ELSE Goto("app_library_tracks", best_track_ids, 0, 0, <<>>, <<>>, 0)

\* app.py:611-623 and 687-707 up to the first provider request
AppGetRecommendations ==
    /\ op = "app_recommend" /\ pc = "start"
    /\ IF AppLibraryEligible
       THEN \E sample_ids \in RandomSample(user_track_ids.ids,
                                 Min(APP_SAMPLE_MAX, Len(user_track_ids.ids))) :
                Goto("app_library_features", sample_ids, 0, 0, <<>>, <<>>, 0)
       ELSE AppStartSearch
    /\ UNCHANGED <<inputVars, gwVars, extVars>>

\* app.py:626-633: one sp.audio_features request, a failed batch is skipped
AppLibraryFeatures ==
    /\ op = "app_recommend" /\ pc = "app_library_features"
    /\ LET batch == Slice(track_ids, i, i + APP_FEATURE_BATCH)
       IN  \E out \in AppOutcomes :
             /\ AppRequest("audio_features", Len(batch), NoAppQuery, out)
             /\ LET got == IF out.kind = "ok"
                           THEN Truthy([k \in DOMAIN batch |-> Entry(batch[k])])
                           ELSE <<>>
                    audio_features_list == features \o got
                IN  IF i + APP_FEATURE_BATCH < Len(track_ids)
                    THEN Goto("app_library_features", track_ids,
                              i + APP_FEATURE_BATCH, 0, audio_features_list, <<>>, 0)
                    ELSE AfterLibraryFeatures(audio_features_list)
    /\ UNCHANGED <<inputVars, gwVars>>

\* app.py:654-667: one sp.tracks request for the best matches
AppLibraryTracks ==
    /\ op = "app_recommend" /\ pc = "app_library_tracks"
    /\ LET batch == Slice(track_ids, i, i + APP_TRACK_BATCH)
       IN  \E out \in AppOutcomes : \E got \in SubSeqs(batch) :
             /\ AppRequest("tracks", Len(batch), NoAppQuery, out)
             /\ IF out.kind # "ok" THEN got = <<>> /\ RandomFallback
                ELSE IF i + APP_TRACK_BATCH < Len(track_ids)
                THEN Goto("app_library_tracks", track_ids, i + APP_TRACK_BATCH, 0,
                          <<>>, tracks \o got, 0)
                ELSE IF tracks \o got # <<>>
                THEN Finish(Return(Prefix(tracks \o got, limit)), "library")
                ELSE RandomFallback
    /\ UNCHANGED <<inputVars, gwVars>>

\* app.py:673-684: one sp.tracks request for the random picks
AppRandomTracks ==
    /\ op = "app_recommend" /\ pc = "app_random_tracks"
    /\ LET batch == Slice(track_ids, i, i + APP_TRACK_BATCH)
       IN  \E out \in AppOutcomes : \E got \in SubSeqs(batch) :
             /\ AppRequest("tracks", Len(batch), NoAppQuery, out)
             /\ IF out.kind # "ok" THEN got = <<>> /\ AppStartSearch
                ELSE IF i + APP_TRACK_BATCH < Len(track_ids)
                THEN Goto("app_random_tracks", track_ids, i + APP_TRACK_BATCH, 0,
                          <<>>, tracks \o got, 0)
                ELSE IF tracks \o got # <<>>
                THEN Finish(Return(Prefix(tracks \o got, limit)), "random")
                ELSE AppStartSearch
    /\ UNCHANGED <<inputVars, gwVars>>

\* app.py:557-567: filter_tracks_by_mood starts on the hits of a search
AppFilterStart(raw_tracks) ==
    Goto("app_filter", raw_tracks, 0, 0, <<>>, raw_tracks, q)

\* app.py:709-787: one sp.search request
AppSearch ==
    /\ op = "app_recommend" /\ pc = "app_search"
    /\ \E out \in AppOutcomes : \E raw_tracks \in SearchResponses(AppSearchLimit(q)) :
         /\ AppRequest("search", AppSearchLimit(q), AppQuery(q), out)
         /\ IF out.kind # "ok" THEN raw_tracks = <<>> /\ AppNextAttempt
            ELSE IF raw_tracks = <<>> THEN AppNextAttempt
            ELSE IF q < APP_ATTEMPTS THEN AppFilterStart(raw_tracks)
            ELSE IF Prefix(raw_tracks, limit) # <<>>
            THEN Finish(Return(Prefix(raw_tracks, limit)), "unfiltered")
            ELSE AppNextAttempt
    /\ UNCHANGED <<inputVars, gwVars>>

\* app.py:569-601 inside a search attempt: one sp.audio_features request
AppFilterBatch ==
    /\ op = "app_recommend" /\ pc = "app_filter"
    /\ LET batch == Slice(track_ids, i, i + APP_FEATURE_BATCH)
       IN  \E out \in AppOutcomes :
             /\ AppRequest("audio_features", Len(batch), NoAppQuery, out)
             /\ LET got == IF out.kind = "ok"
                           THEN Truthy([k \in DOMAIN batch |-> Entry(batch[k])])
                           ELSE <<>>
                    all_features == features \o got
                    scored == ScoreCandidates(tracks, FeaturesById(all_features),
                                              target_features)
                    filtered == IF all_features = <<>> THEN Prefix(tracks, limit)
                                ELSE FilterResult(tracks, scored, limit)
                IN  IF i + APP_FEATURE_BATCH < Len(track_ids)
                    THEN Goto("app_filter", track_ids, i + APP_FEATURE_BATCH, 0,
                              all_features, tracks, q)
                    ELSE IF filtered # <<>> THEN Finish(Return(filtered), "search")
                    ELSE AppNextAttempt
    /\ UNCHANGED <<inputVars, gwVars>>

\* the moods the ladder is asked for: four presets and a name of no table
AppMoods == {"Happy", "Chill", "Focus", "Hype", "Custom"}

InitAppLadder ==
    /\ op = "app_recommend"
    /\ mood \in AppMoods
    /\ limit \in 1..MaxSmallLimit
    /\ use_user_library \in BOOLEAN
    /\ user_track_ids \in PoolInputs
    /\ target_features = ToDict(Preset(mood))
    /\ catalog \in [Ids -> {"none", "noid", "full"}]
    /\ in_ids = <<>>
    /\ text = <<>>
    /\ track_features = NoFeatures
    /\ InitCommon

NextAppLadder ==
    \/ AppGetRecommendations
    \/ AppLibraryFeatures
    \/ AppLibraryTracks
    \/ AppRandomTracks
    \/ AppSearch
    \/ AppFilterBatch

SpecAppLadder == InitAppLadder /\ [][NextAppLadder]_vars

(***************************************************************************)
(* Properties of get_mood_recommendations (SpecRecommend)                  *)
(***************************************************************************)
Done == pc = "done"
Returned == Done /\ result.kind = "return"
SearchCalls == {k \in DOMAIN calls : calls[k].fn = "search_tracks"}
LastSearch == last.fn = "search_tracks"

\* C1: whatever the mood, the limit in 1..50, the pool and the gateway's
\* outcomes, as long as no get_tracks or search answer was longer than asked
\* for, get_mood_recommendations returns at most `limit` tracks.
C1_AtMostLimit ==
    (op = "recommend" /\ Returned /\ limit \in 1..50 /\ within)
        => Len(result.value) <= limit

\* a search answered with more tracks than the limit and was cut to it
C1_Witness ==
    /\ op = "recommend" /\ Returned /\ within
    /\ source = "search"
    /\ Len(last.resp) > limit
    /\ Len(result.value) = limit

\* C2: without a usable pool, when every search returned nothing or raised,
\* the result is the empty list, returned and not raised, after every query
\* variant has been tried.
C2_AllSearchesEmpty ==
    (op = "recommend" /\ Done /\ ValidLimit(limit) /\ ~LibraryEligible
        /\ search_hits = 0)
        => /\ result = Return(<<>>)
           /\ Len(calls) = Len(Queries)

\* five searches, some raising and some empty, ended in []
C2_Witness ==
    /\ op = "recommend" /\ Done /\ ~LibraryEligible
    /\ search_hits = 0
    /\ "search_tracks" \in raised
    /\ last.kind = "ok"
    /\ Len(calls) = 5
    /\ result = Return(<<>>)

\* C3 as stated: a search that returns at least one track ends the ladder
\* with that result.
C3_AnyTrackEndsLadder ==
    (op = "recommend" /\ LastSearch /\ last.kind = "ok" /\ last.resp # <<>>)
        => (Done /\ result = Return(Prefix(last.resp, limit)))

\* the calls are issued in the ladder's order: feature lookups, then track
\* lookups, then the queries of _generate_search_queries one after the other
LadderOrder ==
    /\ \A k \in DOMAIN calls : \A m \in DOMAIN calls :
          k < m =>
            /\ calls[m].fn = "get_audio_features" => calls[k].fn = "get_audio_features"
            /\ calls[k].fn = "search_tracks" => calls[m].fn = "search_tracks"
    /\ \A k \in SearchCalls :
          /\ k - (Len(calls) - Cardinality(SearchCalls)) \in DOMAIN Queries
          /\ calls[k].query = Queries[k - (Len(calls) - Cardinality(SearchCalls))]

\* C3 (amended): the calls follow one fixed order; a non-empty library result
\* is returned without any search; the first search that returns at least
\* `limit` tracks ends the ladder with its first `limit` tracks and is the
\* last call made; a search that returns fewer than `limit` tracks, or that
\* raises, is passed over for the next query, and after the last query the
\* result is empty.
C3_FirstSufficientWins ==
    op = "recommend" =>
        /\ LadderOrder
        /\ (Returned /\ source = "library")
              => /\ result.value # <<>>
                 /\ last.fn = "get_tracks" /\ last.kind = "ok"
                 /\ SearchCalls = {}
        /\ (LastSearch /\ last.kind = "ok" /\ Len(last.resp) >= limit)
              => /\ Done /\ source = "search"
                 /\ result = Return(Prefix(last.resp, limit))
        /\ (LastSearch /\ ~(last.kind = "ok" /\ Len(last.resp) >= limit))
              => IF Cardinality(SearchCalls) < Len(Queries)
                 THEN pc = "search" /\ q = Cardinality(SearchCalls) + 1
                 ELSE Done /\ result = Return(<<>>)

\* a search found a track, but fewer than `limit`, and a later query won
C3_Witness ==
    /\ op = "recommend" /\ Returned /\ source = "search"
    /\ Cardinality(SearchCalls) = 3
    /\ search_hits >= limit /\ limit = 2
    /\ result.value = Prefix(last.resp, limit)

\* C4 as stated: once a gateway call of the library strategy has raised, the
\* library strategy counts as empty and the result comes from the search.
C4_RaiseMovesToNextStrategy ==
    (op = "recommend" /\ Done /\ "get_audio_features" \in raised)
        => source # "library"

\* C4 (amended): no gateway exception reaches the caller.  A failed track
\* lookup or search counts as zero results and the next rung is tried (the
\* result being empty after the last query); a failed feature batch is
\* retried per ID, so the library strategy may still produce the result.
\* When a library call raised and a later search found enough tracks, the
\* search result is returned.
C4_ExceptionsContained ==
    op = "recommend" =>
        /\ result.kind = "raise"
              => /\ result.exc = "ValidationError" /\ calls = <<>>
        /\ (last.kind = "raise" /\ last.fn = "get_tracks")
              => /\ pc = "search" /\ q = 1
        /\ (last.kind = "raise" /\ LastSearch)
              => IF Cardinality(SearchCalls) < Len(Queries)
                 THEN pc = "search" /\ q = Cardinality(SearchCalls) + 1
                 ELSE Done /\ result = Return(<<>>)
        /\ (last.kind = "raise" /\ last.fn = "get_audio_features" /\ Len(calls) = 1)
              => /\ pc = "features_single" /\ j = 0 /\ features = <<>>
        /\ (Done /\ raised \cap {"get_audio_features", "get_tracks"} # {}
                 /\ LastSearch /\ last.kind = "ok" /\ Len(last.resp) >= limit)
              => result = Return(Prefix(last.resp, limit))

\* the feature batch, a track lookup and a search raised, and a later search
\* produced the result
C4_Witness ==
    /\ op = "recommend" /\ Returned
    /\ raised = {"get_audio_features", "get_tracks", "search_tracks"}
    /\ source = "search"
    /\ result.value # <<>>

\* C5 as stated: for a gateway that answers only about IDs it was asked
\* about, a library result consists of pool tracks and has at most `limit`
\* of them.
C5_LibraryFromPool ==
    (op = "recommend" /\ Returned /\ source = "library" /\ honest)
        => /\ Range(result.value) \subseteq Range(user_track_ids.ids)
           /\ Len(result.value) <= limit

\* C5 (amended): for a gateway that answers only about IDs it was asked
\* about and with no more track details than it was asked for, a library
\* result consists of pool tracks and has at most `limit` of them.
C5_LibraryFromPoolBounded ==
    (op = "recommend" /\ Returned /\ source = "library" /\ honest /\ within)
        => /\ Range(result.value) \subseteq Range(user_track_ids.ids)
           /\ Len(result.value) <= limit

\* the library produced exactly `limit` tracks from a pool larger than that,
\* after the feature lookup had gone through the per-ID fallback
C5_Witness ==
    /\ op = "recommend" /\ Returned /\ source = "library" /\ honest /\ within
    /\ limit = 2 /\ Len(result.value) = 2
    /\ Len(user_track_ids.ids) > limit
    /\ "get_audio_features" \in raised

\* C6: a limit below 1 or above 50 raises ValidationError without any
\* gateway call; a limit in 1..50 never ends in ValidationError.
C6_LimitValidation ==
    (op = "recommend" /\ Done) =>
        /\ (limit < 1 \/ limit > 50)
              => /\ result = Raised("ValidationError")
                 /\ calls = <<>>
        /\ (limit >= 1 /\ limit <= 50)
              => /\ result.kind = "return"
                 /\ result.exc # "ValidationError"

\* the limit 51 was refused
C6_Witness ==
    /\ op = "recommend" /\ Done
    /\ limit = 51
    /\ result = Raised("ValidationError")
    /\ calls = <<>>

(***************************************************************************)
(* Properties of the playlist exporters (SpecPlaylist)                     *)
(***************************************************************************)
PlaylistCalls == {"create_playlist", "add_tracks_to_playlist"}
AddCalls == {k \in DOMAIN calls : calls[k].fn = "add_tracks_to_playlist"}

\* the k-th run of up to 100 consecutive input IDs, written out by position
ConsecutiveSlice(ids, k) ==
    [m \in 1..(IF 100 * k <= Len(ids) THEN 100 ELSE Len(ids) - 100 * (k - 1))
        |-> ids[100 * (k - 1) + m]]

\* C7: create_mood_playlist called with an empty track list raises
\* ValidationError before any gateway call: nothing is ever logged at the
\* gateway, no playlist is created and no append is issued.
C7_EmptyTracksRejected ==
    (op = "playlist" /\ in_ids = <<>>)
        => /\ calls = <<>>
           /\ ~remote.created /\ remote.items = <<>>
           /\ Done => result = Raised("ValidationError")
           /\ playlist = NoPlaylist

C7_Witness ==
    /\ op = "playlist" /\ in_ids = <<>> /\ Done
    /\ result.kind = "raise" /\ result.exc = "ValidationError"
    /\ calls = <<>>

\* C8: a successful create_mood_playlist of n >= 1 tracks calls
\* create_playlist exactly once, first, and then add_tracks_to_playlist
\* exactly ceil(n/100) times, each call with 1..100 IDs; the k-th append
\* carries the k-th consecutive slice of the input (150 tracks: two appends,
\* of 100 and of 50), and the returned Playlist's track_ids is the input.
C8_BatchedAppend ==
    /\ (op = "playlist" /\ last.fn = "add_tracks_to_playlist")
          => last.ids = ConsecutiveSlice(in_ids, Cardinality(AddCalls))
    /\ (op = "playlist" /\ Returned)
          => LET n == Len(in_ids)
             IN  /\ n >= 1
                 /\ calls[1].fn = "create_playlist"
                 /\ AddCalls = 2..Len(calls)
                 /\ Cardinality(AddCalls) = (n + 99) \div 100
                 /\ \A k \in AddCalls :
                       /\ calls[k].n \in 1..100
                       /\ calls[k].n = Len(ConsecutiveSlice(in_ids, k - 1))
                 /\ n = 150 => /\ Len(calls) = 3
                               /\ calls[2].n = 100 /\ calls[3].n = 50
                 /\ result.value.track_ids = in_ids
                 /\ remote.created /\ remote.items = in_ids

C8_Witness ==
    /\ op = "playlist" /\ Returned
    /\ Len(in_ids) = 150
    /\ Cardinality(AddCalls) = 2
    /\ Len(last.ids) = 50 /\ last.ids[1] = 101
    /\ result.value.track_ids = in_ids

\* C9: if the playlist creation or any append fails during an export, the
\* exporter raises to its caller: it returns neither a playlist nor a null
\* result in place of the failure.
C9_FailureSurfaced ==
    (op \in {"playlist", "app_playlist"} /\ Done /\ raised \cap PlaylistCalls # {})
        => result.kind = "raise"

(***************************************************************************)
(* Properties of _get_audio_features_safe (SpecHelpers)                    *)
(***************************************************************************)
\* the batch of the input that starts after `start` IDs, by position
BatchAt(start) ==
    [m \in 1..Min(FEATURE_BATCH, Len(in_ids) - start) |-> in_ids[start + m]]

NumFeatureBatches == (Len(in_ids) + FEATURE_BATCH - 1) \div FEATURE_BATCH

\* C10: in _get_audio_features_safe, once the call for a batch of n IDs has
\* failed, the IDs of that batch are requested one at a time, in batch order
\* and once each: while the fallback is at position j of the batch, the log
\* ends with the batch call followed by exactly j single-ID calls, the latest
\* of them for the j-th ID of the batch.  An ID whose own request fails is
\* skipped, so a run in which every call fails costs one call per batch plus
\* one per ID and returns no features; no run costs more than that.
C10_PerIdRetry ==
    op = "features" =>
       /\ pc = "features_single" =>
             LET b == BatchAt(i)
                 at == Len(calls) - j
             IN  /\ j < Len(b)
                 /\ at >= 1
                 /\ calls[at].n = Len(b)
                 /\ \A k \in (at + 1)..Len(calls) : calls[k].n = 1
                 /\ j = 0 => last.kind = "raise" /\ last.ids = b
                 /\ j > 0 => last.ids = <<b[j]>>
                 /\ "get_audio_features" \in raised
       /\ pc = "features_batch" =>
             /\ i < Len(in_ids) /\ i % FEATURE_BATCH = 0
             /\ last.fn # "" =>
                   last.ids \in {BatchAt(i - FEATURE_BATCH),
                                 <<in_ids[i]>>}
       /\ Done =>
             /\ Len(calls) >= NumFeatureBatches
             /\ Len(calls) <= NumFeatureBatches + Len(in_ids)
             /\ raised = {} => Len(calls) = NumFeatureBatches
             /\ all_failed => /\ Len(calls) = NumFeatureBatches + Len(in_ids)
                              /\ result = Return(<<>>)

C10_Witness ==
    /\ op = "features" /\ Done /\ all_failed
    /\ Len(in_ids) = FEATURE_BATCH + 1
    /\ Len(calls) = 2 + Len(in_ids)
    /\ result = Return(<<>>)

(***************************************************************************)
(* Properties of SpotifyClient (SpecClient)                                *)
(***************************************************************************)
DeclaredErrors == {"AuthenticationError", "APIError", "ValidationError"}

\* the call is over one of the gateway's ceilings
OverCeiling ==
    \/ op = "client.get_audio_features" /\ Len(in_ids) > 100
    \/ op = "client.get_tracks" /\ Len(in_ids) > 50
    \/ op = "client.search_tracks"
          /\ (limit > 50 \/ \A k \in DOMAIN text : text[k] \in {" ", "\t", "\n"})
    \/ op = "client.add_tracks_to_playlist"
          /\ (in_ids = <<>> \/ Len(in_ids) > 100)

\* C11: get_audio_features with more than 100 IDs, get_tracks with more than
\* 50 IDs, search_tracks with limit > 50 or a blank query, and
\* add_tracks_to_playlist with an empty list or more than 100 IDs raise
\* ValidationError, and no request ever reaches the provider.
C11_CeilingsEnforced ==
    OverCeiling => /\ sdk = <<>>
                   /\ provider = NoOutcome
                   /\ Done => result = Raised("ValidationError")

C11_Witness ==
    /\ op = "client.get_audio_features" /\ Len(in_ids) = 101
    /\ Done /\ result.kind = "raise" /\ result.exc = "ValidationError"
    /\ sdk = <<>>

\* C12: whatever the provider SDK raises and whatever payload it returns, a
\* client operation that fails fails with AuthenticationError, APIError or
\* ValidationError; an exception of the SDK always makes it fail that way.
C12_OnlyDeclaredErrors ==
    (op \in ClientOps /\ Done)
        => /\ result.kind \in {"return", "return_none", "raise"}
           /\ result.kind = "raise" => result.exc \in DeclaredErrors
           /\ provider.kind \in {"SpotifyException", "Exception"}
                 => result.kind = "raise" /\ result.exc \in DeclaredErrors

C12_Witness ==
    /\ op = "client.get_tracks" /\ Done
    /\ provider.kind = "Exception"
    /\ result = Raised("APIError")

\* C13: a provider failure with status 401 is reported as AuthenticationError
\* by get_user_profile, get_liked_track_ids and create_playlist and as
\* APIError by the other four operations; a failure with any other status is
\* reported as APIError by every operation.
C13_StatusMapping ==
    (op \in ClientOps /\ Done /\ provider.kind = "SpotifyException")
        => result =
             Raised(IF provider.status = 401
                       /\ op \in {"client.get_user_profile",
                                  "client.get_liked_track_ids",
                                  "client.create_playlist"}
                    THEN "AuthenticationError" ELSE "APIError")

C13_Witness ==
    /\ op = "client.get_liked_track_ids" /\ Done
    /\ Len(sdk) = 2
    /\ provider.kind = "SpotifyException" /\ provider.status = 401
    /\ result = Raised("AuthenticationError")

(***************************************************************************)
(* Properties of the scorers (SpecScore)                                   *)
(***************************************************************************)
Scored == op \in {"score.default", "score.strict"} /\ Done

\* the track has all four features and each equals the target's
EqualsTarget ==
    /\ ~track_features.none
    /\ FeatureKeys \subseteq DOMAIN track_features.dict
    /\ \A k \in FeatureKeys : track_features.dict[k] = target_features[k]

\* the distance between the track's value (or the default the scorer uses
\* when the key is missing) and the target's
Diff(key, default) ==
    LET x == IF key \in DOMAIN track_features.dict
             THEN track_features.dict[key] ELSE default
        d == x - target_features[key]
    IN  IF d < 0 THEN 0 - d ELSE d

\* C14: for every target and every track whose valence, energy, danceability
\* and tempo all equal the target's, both scorers return exactly 0; and no
\* score is ever negative.
C14_PerfectMatchIsZero ==
    Scored => /\ result.kind = "return"
              /\ result.value >= 0
              /\ EqualsTarget => result.value = 0

C14_Witness ==
    /\ Scored /\ op = "score.strict" /\ EqualsTarget
    /\ target_features.valence = 8 /\ target_features.tempo = 140
    /\ result = Return(0)

HasFeatures(c) ==
    \E k \in DOMAIN features :
        /\ ~features[k].none
        /\ "id" \in DOMAIN features[k].dict
        /\ features[k].dict["id"] = c

\* candidate c has no id, or the provider has None or {} as its features
AbsentFeatures(c) == c = 0 \/ catalog[c] \in {"none", "empty"}

FiniteCandidates == {k \in DOMAIN in_ids : in_ids[k] # 0 /\ HasFeatures(in_ids[k])}

\* C16: a candidate whose features are absent or empty scores +infinity; in
\* the ranking of the scored candidates, which is in ascending score order,
\* it never stands before a candidate with a finite score; and when at least
\* `limit` candidates with finite scores exist it is not among the returned
\* tracks, which then are `limit` candidates with finite scores.
C16_NoFeaturesRankLast ==
    (op = "filter" /\ Done) =>
       /\ \A a, b \in DOMAIN scored_list :
             a < b => scored_list[a][2] <= scored_list[b][2]
       /\ \A k \in DOMAIN in_ids :
             AbsentFeatures(in_ids[k]) =>
                /\ in_ids[k] # 0 =>
                      score_track_match(Entry(in_ids[k]), target_features) = Infinity
                /\ \A a, b \in DOMAIN scored_list :
                      (a < b /\ scored_list[a][1] = in_ids[k])
                          => scored_list[b][2] = Infinity
                /\ Cardinality(FiniteCandidates) >= limit
                      => in_ids[k] \notin Range(result.value)
       /\ Cardinality(FiniteCandidates) >= limit
             => /\ Len(result.value) = limit
                /\ \A k \in DOMAIN result.value :
                      /\ HasFeatures(result.value[k])
                      /\ score_track_match(Entry(result.value[k]), target_features)
                            < Infinity

C16_Witness ==
    /\ op = "filter" /\ Done
    /\ in_ids = <<1, 2, 3>> /\ limit = 2
    /\ catalog[1] = "none" /\ catalog[2] = "full" /\ catalog[3] = "full"
    /\ Len(scored_list) = 2
    /\ Len(result.value) = 2 /\ 1 \notin Range(result.value)

(***************************************************************************)
(* Properties of parse_mood_from_text (SpecParse)                          *)
(***************************************************************************)
ParsedText == op = "parse" /\ Done

\* the entries of the activity table whose activity occurs in the text
ActivityHits ==
    {k \in DOMAIN ACTIVITY_MOOD_MAP :
        Contains(ACTIVITY_MOOD_MAP[k].activity, LowerText(text))}

\* some keyword of some mood occurs in the text
KeywordHit ==
    \E k \in DOMAIN CHATBOT_MOOD_KEYWORDS :
        \E m \in DOMAIN CHATBOT_MOOD_KEYWORDS[k].keywords :
            Contains(CHATBOT_MOOD_KEYWORDS[k].keywords[m], LowerText(text))

\* some generic-intent phrase occurs in the text
GenericHit ==
    \E w \in Range(MoreEnergyWords) \cup Range(CalmerWords) :
        Contains(w, LowerText(text))

\* C17: when the text contains, in any letter case and anywhere, at least
\* one activity of the activity table, parse_mood_from_text returns the mood
\* of the first such activity in the table's order, whatever mood keywords
\* the text also contains.
C17_FirstActivityWins ==
    (ParsedText /\ ActivityHits # {})
        => LET first == CHOOSE k \in ActivityHits : \A m \in ActivityHits : k <= m
           IN  /\ result.kind = "return"
               /\ result.value.mood = ACTIVITY_MOOD_MAP[first].mood
               /\ result.value.explanation =
                     "Perfect for {activity}! Setting mood to {mood}."

C17_Witness ==
    /\ ParsedText
    /\ text = <<"p", "a", "r", "t", "y", " ", "G", "y", "m">>
    /\ Cardinality(ActivityHits) = 2 /\ KeywordHit
    /\ result.value.mood = <<"H", "y", "p", "e">>

\* C18: for every text parse_mood_from_text raises nothing and returns a mood
\* that is a key of MOOD_PRESETS together with that mood's features; a text
\* with no activity, no mood keyword and no generic-intent phrase yields
\* Happy and the explanation that no specific mood was detected.
C18_AlwaysValidMood ==
    ParsedText
        => /\ result.kind = "return"
           /\ \E k \in DOMAIN MOOD_PRESETS :
                 /\ MOOD_PRESETS[k].name = result.value.mood
                 /\ MOOD_PRESETS[k].features = result.value.features
           /\ (ActivityHits = {} /\ ~KeywordHit /\ ~GenericHit)
                 => /\ result.value.mood = <<"H", "a", "p", "p", "y">>
                    /\ result.value.explanation =
                          "No specific mood detected, showing upbeat tracks!"

C18_Witness ==
    /\ ParsedText
    /\ text = <<"a", "s", "d", "f", "q", "w", "e", "r", "t", "y">>
    /\ result.value.mood = <<"H", "a", "p", "p", "y">>
    /\ result.value.explanation = "No specific mood detected, showing upbeat tracks!"

(***************************************************************************)
(* Properties of Playlist (SpecPlaylist)                                   *)
(***************************************************************************)
\* C19: after any sequence of create_mood_playlist batch appends and
\* Playlist.add_track calls, the Playlist's track_ids holds no track ID
\* twice, so that track_count is the number of distinct tracks.
C19_NoDuplicateTracks ==
    op = "playlist"
        => /\ \A a, b \in DOMAIN playlist.track_ids :
                 a # b => playlist.track_ids[a] # playlist.track_ids[b]
           /\ track_count(playlist) = Cardinality(Range(playlist.track_ids))

(***************************************************************************)
(* Strategy selection of get_mood_recommendations (SpecRecommend)          *)
(***************************************************************************)
LookupCalls ==
    {k \in DOMAIN calls : calls[k].fn \in {"get_audio_features", "get_tracks"}}

PoolHoldsLimit ==
    user_track_ids.given /\ Len(user_track_ids.ids) >= limit

\* C20: get_mood_recommendations makes a feature-lookup or track-lookup call
\* (the library strategy) only when a candidate pool is given and holds at
\* least `limit` IDs; in every other case it makes no such call, its first
\* provider call is a catalog search, and a finished call with a valid limit
\* has searched.
C20_LibraryOnlyWithPool ==
    op = "recommend"
        => /\ LookupCalls # {} => PoolHoldsLimit
           /\ ~PoolHoldsLimit
                 => /\ LookupCalls = {}
                    /\ calls # <<>> => calls[1].fn = "search_tracks"
                    /\ source # "library"
                    /\ (Done /\ ValidLimit(limit)) => SearchCalls # {}

C20_Witness ==
    /\ op = "recommend" /\ Done /\ result.kind = "return"
    /\ use_user_library /\ user_track_ids.given
    /\ user_track_ids.ids # <<>> /\ Len(user_track_ids.ids) < limit
    /\ LookupCalls = {} /\ SearchCalls # {} /\ calls[1].fn = "search_tracks"

(***************************************************************************)
(* The order of a search result (SpecRecommend)                            *)
(***************************************************************************)
\* the score of a catalog track against the mood asked for
TargetScore(t) == calculate_mood_score(CatalogFeatures[t], ToDict(Preset(mood)))

LastResortQuery == [kw |-> "top hits 2024", year |-> ""]

\* C21: a result that comes from a search other than the last-resort query
\* is re-ranked with the scorer: it is in ascending score order against the
\* target, and no track the search returned but the result leaves out scores
\* lower than a track of the result.
C21_SearchReranked ==
    (op = "recommend" /\ Returned /\ source = "search"
        /\ calls[Len(calls)].query # LastResortQuery)
        => /\ \A k, m \in DOMAIN result.value :
                 k < m => TargetScore(result.value[k]) <= TargetScore(result.value[m])
           /\ \A t \in Range(last.resp) \ Range(result.value) :
                 \A u \in Range(result.value) : TargetScore(u) <= TargetScore(t)

(***************************************************************************)
(* Both ladders side by side: get_mood_recommendations of the service and  *)
(* get_recommendations of the front end.                                   *)
(***************************************************************************)
InitLadders == InitRecommend \/ InitAppLadder

NextLadders == NextRecommend \/ NextAppLadder

SpecLadders == InitLadders /\ [][NextLadders]_vars

\* the step in which _get_audio_features_safe returns to the library strategy
LeavesServiceFeatures ==
    /\ op = "recommend"
    /\ pc \in {"features_batch", "features_single"}
    /\ pc' \notin {"features_batch", "features_single"}

\* the feature records the service's library strategy has then retrieved
ServiceRetrieved ==
    IF last'.kind = "ok" THEN features \o last'.resp ELSE features

\* the step in which the front end's feature loop ends
LeavesAppFeatures ==
    /\ op = "app_recommend"
    /\ pc = "app_library_features" /\ pc' # "app_library_features"

\* the usable feature records the front end has then retrieved
AppRetrieved ==
    LET batch == Slice(track_ids, i, i + APP_FEATURE_BATCH)
    IN  IF provider'.kind = "ok"
        THEN features \o Truthy([k \in DOMAIN batch |-> Entry(batch[k])])
        ELSE features

\* service.py:150-152: the service's threshold is one record
ServiceTooFew ==
    (LeavesServiceFeatures /\ ServiceRetrieved = <<>>)
        => (pc' = "search" /\ q' = 1 /\ result' = Pending)

\* C22 as stated: a library strategy that has retrieved fewer usable feature
\* records than its threshold (one record in the service, `limit` records in
\* the front end) yields no result, and the next step of the ladder is the
\* first catalog search.
C22_TooFewProceedsToSearch ==
    [][/\ ServiceTooFew
       /\ (LeavesAppFeatures /\ Len(AppRetrieved) < limit)
             => (pc' = "app_search" /\ q' = 1 /\ result' = Pending)]_vars

\* C22 (amended): with fewer usable feature records than its threshold the
\* library strategy yields no feature-ranked result.  The service then goes
\* to the first catalog search.  The front end first asks for the details of
\* min(limit, pool size) randomly picked pool tracks, returns them when at
\* least one comes back, and goes to the first catalog search only when that
\* request raises or brings no track.
C22_TooFewSkipsRanking ==
    [][/\ ServiceTooFew
       /\ (LeavesAppFeatures /\ Len(AppRetrieved) < limit)
             => /\ pc' = "app_random_tracks" /\ result' = Pending
                /\ Len(track_ids') = Min(limit, Len(user_track_ids.ids))
                /\ Range(track_ids') \subseteq Range(user_track_ids.ids)
       /\ (op = "app_recommend" /\ pc = "app_random_tracks"
              /\ pc' # "app_random_tracks")
             => \/ /\ pc' = "app_search" /\ q' = 1
                   /\ (provider'.kind # "ok" \/ result' = Pending)
                \/ /\ pc' = "done" /\ source' = "random"
                   /\ result'.kind = "return" /\ result'.value # <<>>
                   /\ Len(result'.value) <= limit]_vars

\* the only feature request of the front end failed, and the ladder is at
\* the random picks
C22_Witness ==
    /\ op = "app_recommend" /\ pc = "app_random_tracks"
    /\ Len(sdk) = 1 /\ sdk[1].fn = "audio_features"
    /\ provider.kind = "Exception"
    /\ limit = 2

(***************************************************************************)
(* Authentication failures inside get_mood_recommendations (SpecRecommend) *)
(***************************************************************************)
\* the step makes a gateway call
GatewayCalled == Len(calls') = Len(calls) + 1

\* the call made in this step asks again for what the previous call asked
SameRequestAgain ==
    /\ GatewayCalled /\ calls # <<>>
    /\ last'.fn = last.fn
    /\ IF last.fn = "search_tracks"
       THEN calls'[Len(calls')].query = calls[Len(calls)].query
       ELSE Range(last'.ids) \cap Range(last.ids) # {}

\* C23: a gateway call that fails with an authentication error is not
\* retried (the next gateway call, if any, asks for other IDs or another
\* query), and the step in which it fails ends the operation with the
\* authentication error raised to the caller.
C23_AuthErrorSurfaced ==
    [][op = "recommend"
          => /\ (last.exc = "AuthenticationError") => ~SameRequestAgain
             /\ (GatewayCalled /\ last'.exc = "AuthenticationError")
                   => (pc' = "done" /\ result' = Raised("AuthenticationError"))]_vars

(***************************************************************************)
(* The service's two operations side by side: get_mood_recommendations and *)
(* the playlist export.                                                    *)
(***************************************************************************)
InitCore == InitRecommend \/ InitPlaylist

NextCore == NextRecommend \/ NextPlaylist

SpecCore == InitCore /\ [][NextCore]_vars

\* a query the gateway would refuse: empty or only white space
BlankQuery(query) == query.kw \in {"", " "} /\ query.year = ""

BatchCount(n, b) == (n + b - 1) \div b

\* what the call made in this step delivered
Delivered == IF last'.kind = "ok" THEN last'.resp ELSE <<>>

\* what the helper has collected before and after the step
Collected == IF op = "features" THEN features ELSE tracks
CollectedAfter ==
    IF pc' = "done" THEN result'.value
    ELSE IF op = "features" THEN features' ELSE tracks'

\* C25: in _get_audio_features_safe and _get_tracks_in_batches every gateway
\* call appends what it delivered (nothing for a failed call) to what was
\* collected before, so the output is the concatenation, in call order, of
\* the results of the successful calls; no failure is raised or ends the
\* loop: the helper returns only from the last batch, after every batch has
\* been requested.
C25_HelpersKeepGoing ==
    [][(op \in {"features", "tracks"} /\ GatewayCalled)
          => /\ CollectedAfter = Collected \o Delivered
             /\ result'.kind # "raise"
             /\ pc' = "done"
                   => /\ result'.kind = "return"
                      /\ i + (IF op = "features" THEN FEATURE_BATCH ELSE TRACK_BATCH)
                            >= Len(in_ids)
                      /\ IF op = "tracks"
                         THEN Len(calls') = BatchCount(Len(in_ids), TRACK_BATCH)
                         ELSE Len(calls') >= BatchCount(Len(in_ids), FEATURE_BATCH)]_vars

\* two track batches, one of them failed, and the other one's tracks are
\* the output
C25_Witness ==
    /\ op = "tracks" /\ Done
    /\ Len(in_ids) > TRACK_BATCH
    /\ "get_tracks" \in raised
    /\ Len(calls) = 2
    /\ result.kind = "return" /\ result.value # <<>>

(***************************************************************************)
(* The keyword step of parse_mood_from_text (SpecParse)                    *)
(***************************************************************************)
\* how many keywords of the p-th mood of the catalog occur in the text
KeywordCount(p) ==
    Cardinality(
        {km \in UNION {{<<k, m>> : m \in DOMAIN CHATBOT_MOOD_KEYWORDS[k].keywords} :
                          k \in DOMAIN CHATBOT_MOOD_KEYWORDS} :
            /\ CHATBOT_MOOD_KEYWORDS[km[1]].mood = LowerText(MOOD_PRESETS[p].name)
            /\ Contains(CHATBOT_MOOD_KEYWORDS[km[1]].keywords[km[2]], LowerText(text))})

\* C26: for a text with no activity and at least one mood keyword,
\* parse_mood_from_text returns the mood with the most keywords in the text
\* (letter case ignored, keywords found as substrings), and of several moods
\* with that count the first one in the catalog's order.
C26_MostKeywordsFirstWins ==
    (ParsedText /\ ActivityHits = {} /\ KeywordHit)
        => /\ result.kind = "return"
           /\ result.value.explanation = "Detected {mood_name} mood from your request!"
           /\ \E p \in DOMAIN MOOD_PRESETS :
                 /\ result.value.mood = MOOD_PRESETS[p].name
                 /\ KeywordCount(p) > 0
                 /\ \A r \in DOMAIN MOOD_PRESETS :
                       /\ KeywordCount(r) <= KeywordCount(p)
                       /\ r < p => KeywordCount(r) < KeywordCount(p)

\* "sad happy": one keyword each, and Happy, first in the catalog, wins
C26_Witness ==
    /\ ParsedText
    /\ text = <<"s", "a", "d", " ", "h", "a", "p", "p", "y">>
    /\ ActivityHits = {}
    /\ result.value.mood = <<"H", "a", "p", "p", "y">>

(***************************************************************************)
(* Symmetry and monotonicity of the scorers (SpecScore)                    *)
(***************************************************************************)
\* the distance of feature k of the features g from the target
Distance(g, k) ==
    LET d == g.dict[k] - target_features[k]
    IN  IF d < 0 THEN 0 - d ELSE d

\* the score the scorer under test gives the features g
ScoreOf(g) ==
    IF op = "score.default" THEN calculate_mood_score(g.dict, target_features)
    ELSE score_track_match(g, target_features)

\* the track has all four features
FullFeatures ==
    ~track_features.none /\ FeatureKeys \subseteq DOMAIN track_features.dict

\* C27: for both scorers the score of a track with all four features
\* depends only on the distances of its features from the target's: a track
\* at the same four distances (for instance with every difference negated)
\* has the same score, and a track at least as far from the target in every
\* feature (in particular farther in one feature and as far in the other
\* three) has a score at least as high.
C27_SymmetricMonotonic ==
    (Scored /\ FullFeatures)
        => \A g \in AudioFeaturesInputs :
              /\ (\A k \in FeatureKeys :
                     Distance(g, k) = Distance(track_features, k))
                    => ScoreOf(g) = result.value
              /\ (\A k \in FeatureKeys :
                     Distance(g, k) >= Distance(track_features, k))
                    => ScoreOf(g) >= result.value

\* valence 0 against the target 5: the track with valence 10 is the mirror
\* image, and the track with valence 0 and a different energy is farther
C27_Witness ==
    /\ Scored /\ op = "score.default" /\ FullFeatures
    /\ track_features.dict.valence = 0 /\ target_features.valence = 5
    /\ result.value > 0
    /\ \E g \in AudioFeaturesInputs :
          /\ g.dict.valence = 10
          /\ \A k \in FeatureKeys : Distance(g, k) = Distance(track_features, k)
          /\ ScoreOf(g) = result.value

(***************************************************************************)
(* The year filter of the search queries (SpecLadders)                     *)
(***************************************************************************)
\* the window for an energy given in tenths: most recent, mid or widest
WindowByEnergy(energy, recent, mid, widest) ==
    IF energy > 7 THEN recent ELSE IF energy > 4 THEN mid ELSE widest

\* the searches of the front end, by position in its request log
AppSearches == {k \in DOMAIN sdk : sdk[k].fn = "search"}

\* C28: the year filter of the first search query is a function of the
\* target's energy alone: above 0.7 the most recent window, above 0.4 and up
\* to 0.7 the mid window, up to 0.4 the widest window.  Of the service's
\* generated queries exactly the first carries a year filter and the last is
\* the generic popular-tracks fallback; of the front end's searches exactly
\* the first carries a year filter.
C28_YearFilterByEnergy ==
    /\ op = "recommend"
          => LET before == Len(calls) - Cardinality(SearchCalls)
             IN  /\ \A k \in SearchCalls :
                       /\ k = before + 1
                             => calls[k].query.year =
                                   WindowByEnergy(Preset(mood).energy,
                                       " year:2020-2025", " year:2015-2025",
                                       " year:2010-2025")
                       /\ k > before + 1 => calls[k].query.year = ""
                       /\ k - before <= Len(Queries)
                       /\ k - before = Len(Queries)
                             => calls[k].query = [kw |-> "top hits 2024", year |-> ""]
                 /\ (pc = "done" /\ result = Return(<<>>) /\ SearchCalls # {}
                        /\ last.fn = "search_tracks" /\ Len(last.resp) < limit)
                       => calls[Len(calls)].query = [kw |-> "top hits 2024", year |-> ""]
    /\ op = "app_recommend"
          => \A k \in AppSearches :
                IF \A m \in AppSearches : k <= m
                THEN sdk[k].query.year =
                        WindowByEnergy(target_features.energy,
                            " year:2018-2025", " year:2010-2025", " year:2000-2025")
                ELSE sdk[k].query.year = ""

\* Happy has energy 0.7 exactly: the mid window, then three queries without
\* a year and the popular-tracks query last
C28_Witness ==
    /\ op = "recommend" /\ mood = "Happy" /\ pc = "done"
    /\ Len(calls) = 5 /\ Cardinality(SearchCalls) = 5
    /\ calls[1].query.year = " year:2015-2025"
    /\ calls[5].query = [kw |-> "top hits 2024", year |-> ""]

(***************************************************************************)
(* A failed append of create_mood_playlist (SpecPlaylist)                  *)
(***************************************************************************)
\* C29: when the k-th add_tracks_to_playlist call of create_mood_playlist
\* fails, the export ends there with that error: exactly k append calls have
\* been made, the k-th for the k-th run of 100 IDs, and the provider keeps
\* the playlist that was created with the first k-1 runs of IDs in it and
\* nothing of the later ones.
C29_PartialPlaylistStays ==
    (op = "playlist" /\ last.fn = "add_tracks_to_playlist" /\ last.kind = "raise")
        => LET k == Cardinality(AddCalls)
           IN  /\ pc = "done" /\ result = Raised(last.exc)
               /\ Len(calls) = k + 1
               /\ calls[1].fn = "create_playlist"
               /\ \A m \in 2..(k + 1) : calls[m].fn = "add_tracks_to_playlist"
               /\ last.ids = ConsecutiveSlice(in_ids, k)
               /\ remote.created
               /\ remote.items = Prefix(in_ids, PLAYLIST_BATCH * (k - 1))

\* the third batch failed: 200 of the 201 tracks stay in the playlist
C29_Witness ==
    /\ op = "playlist" /\ pc = "done" /\ result.kind = "raise"
    /\ Len(in_ids) = 201
    /\ Cardinality(AddCalls) = 3
    /\ last.kind = "raise"
    /\ remote.created /\ Len(remote.items) = 200

(***************************************************************************)
(* The number of gateway calls of get_mood_recommendations (SpecRecommend) *)
(***************************************************************************)
FeatureCalls == {k \in DOMAIN calls : calls[k].fn = "get_audio_features"}
TrackCalls == {k \in DOMAIN calls : calls[k].fn = "get_tracks"}

\* the size of the library sample (service.py:144)
SampleSize == Min(SAMPLE_MAX, Len(user_track_ids.ids))

\* C30: whatever the gateway answers, get_mood_recommendations makes at most
\* 1 + s feature lookups for its sample of s pool IDs (one batch and one
\* retry per ID), at most one track lookup and at most 5 searches, the k-th
\* search carrying the k-th generated query, so that no query variant is
\* issued twice; in all it makes at most 1 + s + 1 + 5 gateway calls, and as
\* long as it has not returned it has a next step to take (in the per-ID
\* retry loop: the next ID of the batch).
C30_BoundedCalls ==
    op = "recommend"
        => /\ Cardinality(FeatureCalls) <= 1 + SampleSize
           /\ Cardinality(TrackCalls) <= 1
           /\ Cardinality(SearchCalls) <= 5
           /\ \A k \in SearchCalls :
                 /\ k - (Len(calls) - Cardinality(SearchCalls)) \in DOMAIN Queries
                 /\ calls[k].query = Queries[k - (Len(calls) - Cardinality(SearchCalls))]
           /\ Len(calls) <= 1 + SampleSize + 1 + 5
           /\ \/ pc = "done"
              \/ ENABLED (Call \/ FeaturesBatch \/ TracksBatch \/ Search)
              \/ /\ pc = "features_single"
                 /\ j + 1 \in DOMAIN Slice(track_ids, i, i + FEATURE_BATCH)

\* the longest run: the feature batch failed and was retried per ID, the
\* track lookup brought nothing, and all five searches were tried in vain
C30_Witness ==
    /\ op = "recommend" /\ pc = "done"
    /\ Cardinality(FeatureCalls) = 1 + SampleSize /\ SampleSize = SAMPLE_MAX
    /\ Cardinality(TrackCalls) = 1
    /\ Cardinality(SearchCalls) = 5
    /\ result = Return(<<>>)

====
